---- MODULE Spec2Model ----
(***************************************************************************)
(* Model of the defect classification engine of systax                     *)
(* (src/systax/core/linkedunits.py): the LinkedUnitCollection dictionary,  *)
(* its chemical-environment filter and its lazily cached classification    *)
(* accessors.                                                              *)
(*                                                                         *)
(* Abstractions.  Atom positions are identified with atom indices and the  *)
(* expected positions of vacancies with the numbers NAtoms..NAtoms+NVac-1. *)
(* A tetrahedra decomposition is represented by the set of positions that  *)
(* lie in one of its retained simplices, so find_simplex is a membership   *)
(* test.  A chemical environment is the dictionary species -> count that   *)
(* get_chemical_environment returns; the environments of the prototype     *)
(* cell and of the atoms of the system are inputs of the model.  Python    *)
(* lists whose order and multiplicity no accessor result depends on are    *)
(* sets.  A cache field holds None (<<>>) or Some(v) (<<v>>).              *)
(*                                                                         *)
(* Specifications.  Spec: a collection is constructed, units are assigned  *)
(* and the accessors are called in any order.  SpecKeys: __setitem__ with  *)
(* keys of every kind.  SpecChem: get_chemical_distance on every pair of   *)
(* environments.                                                           *)
(***************************************************************************)
EXTENDS Integers, Sequences, FiniteSets, TLC

\* ---------------------------------------------------------------- bounds
NAtoms == 2
NSlots == 2
NUnits == 1
NVac == 1
MaxDefects == 1
NSpecies == 2
MaxCount == 2

\* ---------------------------------------------------------------- values
None == <<>>
Some(v) == <<v>>
absent == -1

Atoms == 0 .. (NAtoms - 1)
Slots == 1 .. NSlots
Species == 1 .. NSpecies
VacancyPositions == NAtoms .. (NAtoms + NVac - 1)
Positions == Atoms \cup VacancyPositions

Substitution(index) == [index |-> index]
Vacancy(position) == [position |-> position]


LinkedUnit(basis_indices, substitutions, vacancies) ==
    [basis_indices |-> basis_indices,
     substitutions |-> substitutions,
     vacancies |-> vacancies]

\* The defects a unit records: at most MaxDefects substitutions and
\* vacancies together.
Defects ==
    {d \in (SUBSET {Substitution(i) : i \in Atoms})
              \X (SUBSET {Vacancy(p) : p \in VacancyPositions}) :
        Cardinality(d[1]) + Cardinality(d[2]) <= MaxDefects}

LinkedUnits ==
    {LinkedUnit(b, d[1], d[2]) :
        b \in [Slots -> Atoms \cup {absent}], d \in Defects}

\* Keys.  A component of a key is a Python object: an int, a float that is
\* no integer, or a one-character string.
PyInt(n) == [type |-> "int", v |-> n]
PyFloat(n) == [type |-> "float", v |-> n]
PyChr(n) == [type |-> "str", v |-> n]
Key(type, items) == [type |-> type, items |-> items]

\* Keys offered while a tiling is built: the lattice indices (i, 0, 0) of
\* NUnits cells, as tuples and as lists.
TilingKeys ==
    {Key(type, <<PyInt(i), PyInt(0), PyInt(0)>>) :
        type \in {"tuple", "list"}, i \in 0 .. (NUnits - 1)}

\* Keys offered to __setitem__ alone: the above, one more lattice index, a
\* sequence of two
\* components, an int (not iterable), a three-character string and a tuple
\* with a non-integer component.
KeyInputs ==
    TilingKeys \cup
    {Key("tuple", <<PyInt(NUnits), PyInt(0), PyInt(0)>>),
     Key("tuple", <<PyInt(0), PyInt(0)>>),
     Key("int", <<PyInt(0)>>),
     Key("str", <<PyChr(0), PyChr(1), PyChr(2)>>),
     Key("tuple", <<PyFloat(5), PyInt(0), PyInt(0)>>)}

\* Environments: dictionaries from some species to a neighbour count.
Envs == UNION {[D -> 0 .. MaxCount] : D \in SUBSET Species}

\* Environments of the prototype slots and of the atoms of the system that
\* the classification model draws from.
IdealSamples == {[s \in {1} |-> 0], [s \in {1} |-> 5]}
RealSamples == {[s \in {1} |-> 1], [s \in {1} |-> 2]}

VARIABLES
    units,              \* the dictionary itself: stored key -> LinkedUnit
    raised,             \* exception raised by the last call, or "none"
    is_2d,
    neighbour_map,      \* ideal environment of every prototype slot
    real_environment,   \* environment of every atom in the system
    _basis_indices,
    _decomposition,
    _inside_indices,
    _outside_indices,
    _adsorbates,
    _substitutions,
    _vacancies,
    returned,           \* last results of the accessors that keep no cache
    ideal_env,
    real_env,
    chem_dist

\* The symmetry analyzer (src/systax/symmetry/symmetryanalyzer.py).
VARIABLES
    analyzer,           \* the fields of a SymmetryAnalyzer object
    spglib,             \* what the symmetry oracle does for every structure
    oracle_calls,       \* calls of the oracle since the last set_system
    last,               \* the last call on the analyzer and how it ended
    PROPER_RIGID_TRANSFORMATIONS,
    IMPROPER_RIGID_TRANSFORMATIONS,
    ground_input,       \* arguments of _find_wyckoff_ground_state
    ground_state,       \* and how the call ended
    wyckoff_input,      \* arguments of _get_wyckoff_groups
    wyckoff_groups      \* and how the call ended

\* A second ground state search, the conventional lattice fit and an
\* Intervals object (src/systax/geometry/geometry.py).
VARIABLES
    ground_again,       \* how the search on its own result ended
    fit_input,          \* the cells get_conventional_lattice_fit reads
    lattice_fit,        \* and the matrix it returns
    _intervals,
    _merged_intervals,
    _merged_intervals_need_update,
    intervals_last      \* the last call on the Intervals object

utility_vars ==
    <<ground_again, fit_input, lattice_fit,
      _intervals, _merged_intervals, _merged_intervals_need_update,
      intervals_last>>

symmetry_vars ==
    <<analyzer, spglib, oracle_calls, last,
      PROPER_RIGID_TRANSFORMATIONS, IMPROPER_RIGID_TRANSFORMATIONS,
      ground_input, ground_state, wyckoff_input, wyckoff_groups>>

vars == <<units, raised, is_2d, neighbour_map, real_environment,
          _basis_indices, _decomposition, _inside_indices, _outside_indices,
          _adsorbates, _substitutions, _vacancies, returned,
          ideal_env, real_env, chem_dist, symmetry_vars,
          utility_vars>>

\* ------------------------------------------------- chemical environments
RECURSIVE SumOver(_, _)
\* sum(f[k] for k in S)
SumOver(f, S) ==
    IF S = {} THEN 0
    ELSE LET k == CHOOSE x \in S : TRUE
         IN f[k] + SumOver(f, S \ {k})

Min(a, b) == IF a <= b THEN a ELSE b

\* A chemical distance is the pair <<score, max_score>> of the quotient
\* score/max_score.  The counts are numpy integers (np.sum, line 223), so
\* 0/0 evaluates to nan; the sum of an empty dictionary is the Python int 0
\* and the division raises.
NaN == <<0, 0>>
ZeroDivisionError == <<-1, 0>>

\* get_chemical_distance on Python ints: every division by zero raises.
get_chemical_distance_int(ideal, real) ==
    LET max_score == SumOver(ideal, DOMAIN ideal)
        contribution ==
            [ideal_key \in DOMAIN ideal |->
                IF ideal_key \in DOMAIN real
                THEN Min(real[ideal_key], ideal[ideal_key])
                ELSE 0]
        score == SumOver(contribution, DOMAIN ideal)
    IN IF max_score # 0 THEN <<score, max_score>>
       ELSE ZeroDivisionError

get_chemical_distance(ideal, real) ==
    LET max_score == SumOver(ideal, DOMAIN ideal)
        contribution ==
            [ideal_key \in DOMAIN ideal |->
                IF ideal_key \in DOMAIN real
                THEN Min(real[ideal_key], ideal[ideal_key])
                ELSE 0]
        score == SumOver(contribution, DOMAIN ideal)
    IN IF max_score # 0 THEN <<score, max_score>>
       ELSE IF DOMAIN ideal = {} THEN ZeroDivisionError
       ELSE NaN

\* chem_dist >= 0.4, false for nan.  5*score >= 2*max_score decides the
\* comparison of the doubles exactly: the division is correctly rounded and
\* no quotient of small integers lies within an ulp of 2/5 without being it.
AtLeastThreshold(d) == d[2] > 0 /\ 5 * d[1] >= 2 * d[2]

\* ------------------------------------------------------------ the object
\* The cache fields of a collection, as the accessors thread them through
\* their nested calls.
Self ==
    [basis |-> _basis_indices,
     decomposition |-> _decomposition,
     inside |-> _inside_indices,
     outside |-> _outside_indices,
     adsorbates |-> _adsorbates,
     substitutions |-> _substitutions,
     vacancies |-> _vacancies,
     error |-> "none"]

Result(self, ret) == [self |-> self, ret |-> ret]

Range(f) == {f[x] : x \in DOMAIN f}

get_all_indices == Atoms

\* basis_filter without the comparison of the environments (line 182).
basis_filter_unfiltered ==
    {index \in Atoms :
       \E k \in DOMAIN units : \E i_index \in Slots :
          /\ units[k].basis_indices[i_index] = index
          /\ index # absent}

\* Lines 174-183: the slot atoms whose environment is close enough to the
\* ideal environment of a slot they occupy.
basis_filter ==
    {index \in Atoms :
       \E k \in DOMAIN units : \E i_index \in Slots :
          /\ units[k].basis_indices[i_index] = index
          /\ index # absent
          /\ AtLeastThreshold(
               get_chemical_distance(neighbour_map[i_index],
                                     real_environment[index]))}

\* Store value in the cache field and return it.
store_basis(self, value) ==
    Result([self EXCEPT !.basis = Some(value)], value)
store_decomposition(self, value) ==
    Result([self EXCEPT !.decomposition = Some(value)], value)
store_inside_outside(self, inside_indices, outside_indices) ==
    Result([self EXCEPT !.inside = Some(inside_indices),
                        !.outside = Some(outside_indices)],
           <<inside_indices, outside_indices>>)
store_substitutions(self, value) ==
    Result([self EXCEPT !.substitutions = Some(value)], value)
store_vacancies(self, value) ==
    Result([self EXCEPT !.vacancies = Some(value)], value)
store_adsorbates(self, value) ==
    Result([self EXCEPT !.adsorbates = Some(value)], value)

\* The exception the loop of lines 168-183 ends with, or "none": the
\* division of line 240 raises for the first occupied slot it meets with.
basis_error ==
    IF \E k \in DOMAIN units : \E i_index \in Slots :
          /\ units[k].basis_indices[i_index] # absent
          /\ get_chemical_distance(
                neighbour_map[i_index],
                real_environment[units[k].basis_indices[i_index]])
             = ZeroDivisionError
    THEN "ZeroDivisionError"
    ELSE "none"

\* The call is left by an exception: no field is assigned.
raise(self, error) == Result([self EXCEPT !.error = error], {})

get_basis_indices(self) ==
    IF self.basis = None
    THEN IF basis_error # "none"
         THEN raise(self, basis_error)
         ELSE store_basis(self, basis_filter)
    ELSE Result(self, self.basis[1])

invalid_of(basis) == Result(basis.self, get_all_indices \ basis.ret)

get_invalid_indices(self) == invalid_of(get_basis_indices(self))

\* systax.geometry.get_tetrahedra_decomposition: the region covered by the
\* retained simplices of the Delaunay triangulation of the given atoms.
\* Which positions it covers depends on the geometry, an input (region);
\* without atoms there is no simplex.
tetrahedra_decomposition(valid_sys, region) ==
    IF valid_sys = {} THEN {} ELSE region

\* Index of the simplex that holds pos, or absent (Python's None).
find_simplex(tesselation, pos) ==
    IF pos \in tesselation THEN 0 ELSE absent

decompose(basis, region) ==
    store_decomposition(basis.self,
                        tetrahedra_decomposition(basis.ret, region))

get_tetrahedra_decomposition(self, region) ==
    IF self.decomposition = None
    THEN decompose(get_basis_indices(self), region)
    ELSE Result(self, self.decomposition[1])

\* Lines 441-449: the invalid atoms, split by find_simplex.
split_invalid(invalid_indices, tess) ==
    store_inside_outside(
        tess.self,
        {i \in invalid_indices : find_simplex(tess.ret, i) # absent},
        {i \in invalid_indices : find_simplex(tess.ret, i) = absent})

\* Lines 438-440: the tesselation is asked for only if some atom is invalid.
locate_invalid(invalid, region) ==
    IF invalid.ret # {}
    THEN split_invalid(invalid.ret,
                       get_tetrahedra_decomposition(invalid.self, region))
    ELSE split_invalid(invalid.ret, Result(invalid.self, {}))

get_inside_and_outside_indices(self, region) ==
    IF self.inside = None /\ self.outside = None
    THEN locate_invalid(get_invalid_indices(self), region)
    ELSE Result(self, <<self.inside[1], self.outside[1]>>)

all_substitutions == UNION {units[k].substitutions : k \in DOMAIN units}
all_vacancies == UNION {units[k].vacancies : k \in DOMAIN units}

subst_indices(substitutions) == {x.index : x \in substitutions}

\* valid_substitutions without the test of line 350.
valid_substitutions_unvalidated(io) ==
    store_substitutions(io.self, all_substitutions)

\* Lines 343-352: the substitutions whose atom is among the inside indices.
valid_substitutions(io) ==
    store_substitutions(
        io.self,
        {subst \in all_substitutions : subst.index \in io.ret[1]})

\* get_substitutions without the cache test of line 327.
get_substitutions_uncached(self, region) ==
    IF is_2d
    THEN store_substitutions(self, all_substitutions)
    ELSE valid_substitutions(get_inside_and_outside_indices(self, region))

get_substitutions(self, region) ==
    IF self.substitutions = None
    THEN IF is_2d
         THEN store_substitutions(self, all_substitutions)
         ELSE valid_substitutions(get_inside_and_outside_indices(self, region))
    ELSE Result(self, self.substitutions[1])

\* valid_vacancies without the test of line 384.
valid_vacancies_unvalidated(tess) ==
    store_vacancies(tess.self, all_vacancies)

\* Lines 377-386: the vacancies whose position lies in some simplex.
valid_vacancies(tess) ==
    store_vacancies(
        tess.self,
        {vacancy \in all_vacancies :
            find_simplex(tess.ret, vacancy.position) # absent})

get_vacancies(self, region) ==
    IF self.vacancies = None
    THEN IF is_2d
         THEN store_vacancies(self, all_vacancies)
         ELSE valid_vacancies(get_tetrahedra_decomposition(self, region))
    ELSE Result(self, self.vacancies[1])

\* Lines 310-320: the remaining outside indices are the adsorbates.
adsorbates_of(outside_indices, substitutions) ==
    store_adsorbates(substitutions.self,
                     outside_indices \ subst_indices(substitutions.ret))

\* outside_without_substitutions without the branch of lines 303-308.
outside_with_substitutions(io, region) ==
    adsorbates_of(io.ret[2], Result(io.self, {}))

\* outside_without_substitutions that removes the atoms of all substitutions
\* of the units, in a 2D material or not.
outside_without_any_substitution(io, region) ==
    adsorbates_of(io.ret[2], Result(io.self, all_substitutions))

\* Lines 303-308: in a 2D material the substitutions are removed from the
\* outside indices.
outside_without_substitutions(io, region) ==
    IF is_2d
    THEN adsorbates_of(io.ret[2], get_substitutions(io.self, region))
    ELSE adsorbates_of(io.ret[2], Result(io.self, {}))

get_adsorbates(self, region) ==
    IF self.adsorbates = None
    THEN outside_without_substitutions(
             get_inside_and_outside_indices(self, region), region)
    ELSE Result(self, self.adsorbates[1])

interstitials_of(inside_indices, substitutions) ==
    Result(substitutions.self,
           inside_indices \ subst_indices(substitutions.ret))

inside_without_substitutions(io, region) ==
    interstitials_of(io.ret[1], get_substitutions(io.self, region))

get_interstitials(self, region) ==
    inside_without_substitutions(
        get_inside_and_outside_indices(self, region), region)

unknowns_of(basis_indices, interstitials, adsorbates, substitutions) ==
    Result(substitutions.self,
           get_all_indices \
               (basis_indices \cup interstitials \cup adsorbates
                    \cup subst_indices(substitutions.ret)))

unknowns_3(basis_indices, interstitials, adsorbates, region) ==
    unknowns_of(basis_indices, interstitials, adsorbates.ret,
                get_substitutions(adsorbates.self, region))

unknowns_2(basis_indices, interstitials, region) ==
    unknowns_3(basis_indices, interstitials.ret,
               get_adsorbates(interstitials.self, region), region)

unknowns_1(basis, region) ==
    unknowns_2(basis.ret, get_interstitials(basis.self, region), region)

get_unknowns(self, region) == unknowns_1(get_basis_indices(self), region)

\* The indices of the atoms of the recreated system.
recreate_valid ==
    UNION {{x \in Range(units[k].basis_indices) : x # absent} :
              k \in DOMAIN units}

\* ---------------------------------------------------------------- actions
NoCaches ==
    /\ _basis_indices = None
    /\ _decomposition = None
    /\ _inside_indices = None
    /\ _outside_indices = None
    /\ _adsorbates = None
    /\ _substitutions = None
    /\ _vacancies = None

NoChemistry ==
    /\ ideal_env = <<>>
    /\ real_env = <<>>
    /\ chem_dist = None

\* Neither a second search nor a lattice fit nor an Intervals object is in
\* use.
NoUtilities ==
    /\ ground_again = <<>>
    /\ fit_input = <<>>
    /\ lattice_fit = <<>>
    /\ _intervals = <<>>
    /\ _merged_intervals = <<>>
    /\ _merged_intervals_need_update = FALSE
    /\ intervals_last = <<>>

\* No symmetry analyzer is in use.
NoSymmetry ==
    /\ analyzer = <<>>
    /\ spglib = <<>>
    /\ oracle_calls = 0
    /\ last = <<>>
    /\ PROPER_RIGID_TRANSFORMATIONS = <<>>
    /\ IMPROPER_RIGID_TRANSFORMATIONS = <<>>
    /\ ground_input = <<>>
    /\ ground_state = None
    /\ wyckoff_input = <<>>
    /\ wyckoff_groups = None

\* LinkedUnitCollection.__init__
Init ==
    /\ units = <<>>
    /\ raised = "none"
    /\ is_2d \in BOOLEAN
    /\ neighbour_map \in [Slots -> IdealSamples]
    /\ real_environment \in [Atoms -> RealSamples]
    /\ NoCaches
    /\ returned = [get_interstitials |-> None, get_unknowns |-> None]
    /\ NoChemistry
    /\ NoSymmetry
    /\ NoUtilities

\* tuple(key): a tuple or a list gives its items, a string its characters,
\* an int is not iterable.
CanTuple(key) == key.type # "int"
tuple(key) == key.items

\* setitem_error with the check of line 73 left out.
setitem_error_overwriting(key) ==
    IF ~CanTuple(key) THEN "TypeError"
    ELSE IF Len(tuple(key)) # 3 THEN "ValueError: components"
    ELSE "none"

\* The exception __setitem__ raises for key, or "none".
setitem_error(key) ==
    IF ~CanTuple(key) THEN "TypeError"
    ELSE IF Len(tuple(key)) # 3 THEN "ValueError: components"
    ELSE IF tuple(key) \in DOMAIN units THEN "ValueError: overriding"
    ELSE "none"

setitem(key, value) ==
    /\ raised' = setitem_error(key)
    /\ units' = IF setitem_error(key) = "none"
                THEN [k \in DOMAIN units \cup {tuple(key)} |->
                        IF k = tuple(key) THEN value ELSE units[k]]
                ELSE units
    /\ UNCHANGED <<is_2d, neighbour_map, real_environment,
                   _basis_indices, _decomposition, _inside_indices,
                   _outside_indices, _adsorbates, _substitutions, _vacancies,
                   returned, ideal_env, real_env, chem_dist, symmetry_vars,
                   utility_vars>>

\* An accessor call that ends with the cache fields self.  The only
\* statement that raises is the first one that assigns a field, so a call
\* left by an exception has assigned none.
Accessed(self) ==
    /\ _basis_indices' = IF self.error = "none" THEN self.basis
                         ELSE _basis_indices
    /\ _decomposition' = IF self.error = "none" THEN self.decomposition
                         ELSE _decomposition
    /\ _inside_indices' = IF self.error = "none" THEN self.inside
                          ELSE _inside_indices
    /\ _outside_indices' = IF self.error = "none" THEN self.outside
                           ELSE _outside_indices
    /\ _adsorbates' = IF self.error = "none" THEN self.adsorbates
                      ELSE _adsorbates
    /\ _substitutions' = IF self.error = "none" THEN self.substitutions
                         ELSE _substitutions
    /\ _vacancies' = IF self.error = "none" THEN self.vacancies
                     ELSE _vacancies
    /\ raised' = self.error
    /\ UNCHANGED <<units, is_2d, neighbour_map, real_environment,
                   ideal_env, real_env, chem_dist, symmetry_vars,
                   utility_vars>>

\* The values offered with a key: a rejected assignment never reads its
\* value, so one value stands for all of them.
ValuesFor(key, values) ==
    IF setitem_error(key) = "none" THEN values
    ELSE {CHOOSE value \in values : TRUE}

\* The geometry a call may meet: it is read only when the decomposition is
\* built.
Regions ==
    IF _decomposition = None THEN SUBSET Positions ELSE {{}}

SetItem ==
    \E key \in TilingKeys :
        \E value \in ValuesFor(key, LinkedUnits) : setitem(key, value)

GetBasisIndices ==
    /\ Accessed(get_basis_indices(Self).self)
    /\ UNCHANGED returned

GetSubstitutions ==
    \E region \in Regions :
        /\ Accessed(get_substitutions(Self, region).self)
        /\ UNCHANGED returned

GetVacancies ==
    \E region \in Regions :
        /\ Accessed(get_vacancies(Self, region).self)
        /\ UNCHANGED returned

GetAdsorbates ==
    \E region \in Regions :
        /\ Accessed(get_adsorbates(Self, region).self)
        /\ UNCHANGED returned

Returned(r, accessor) ==
    /\ Accessed(r.self)
    /\ returned' = IF r.self.error = "none"
                   THEN [returned EXCEPT ![accessor] = Some(r.ret)]
                   ELSE returned

GetInterstitials ==
    \E region \in Regions :
        Returned(get_interstitials(Self, region), "get_interstitials")

GetUnknowns ==
    \E region \in Regions :
        Returned(get_unknowns(Self, region), "get_unknowns")

RecreateValid ==
    /\ Accessed(Self)
    /\ UNCHANGED returned

Next ==
    \/ SetItem
    \/ GetBasisIndices
    \/ GetSubstitutions
    \/ GetVacancies
    \/ GetAdsorbates
    \/ GetInterstitials
    \/ GetUnknowns
    \/ RecreateValid

Spec == Init /\ [][Next]_vars

\* ------------------------------------- the dictionary under arbitrary keys
\* Two units to tell a stored unit from an offered one.
UnitSamples ==
    {LinkedUnit([i \in Slots |-> absent], {}, {}),
     LinkedUnit([i \in Slots |-> 0], {}, {})}

InitKeys ==
    /\ units = <<>>
    /\ raised = "none"
    /\ is_2d = FALSE
    /\ neighbour_map = [i \in Slots |-> [s \in {1} |-> 5]]
    /\ real_environment = [a \in Atoms |-> [s \in {1} |-> 2]]
    /\ NoCaches
    /\ returned = [get_interstitials |-> None, get_unknowns |-> None]
    /\ NoChemistry
    /\ NoSymmetry
    /\ NoUtilities

SetAnyItem ==
    \E key \in KeyInputs :
        \E value \in ValuesFor(key, UnitSamples) : setitem(key, value)

NextKeys == SetAnyItem

SpecKeys == InitKeys /\ [][NextKeys]_vars

\* ----------------------------------- get_chemical_distance on its own
InitChem ==
    /\ units = <<>>
    /\ raised = "none"
    /\ is_2d = FALSE
    /\ neighbour_map = [i \in Slots |-> [s \in {1} |-> 5]]
    /\ real_environment = [a \in Atoms |-> [s \in {1} |-> 2]]
    /\ NoCaches
    /\ returned = [get_interstitials |-> None, get_unknowns |-> None]
    /\ ideal_env \in Envs
    /\ real_env \in Envs
    /\ chem_dist = None
    /\ NoSymmetry
    /\ NoUtilities

GetChemicalDistance ==
    /\ chem_dist = None
    /\ chem_dist' = Some(get_chemical_distance(ideal_env, real_env))
    /\ UNCHANGED <<units, raised, is_2d, neighbour_map, real_environment,
                   _basis_indices, _decomposition, _inside_indices,
                   _outside_indices, _adsorbates, _substitutions, _vacancies,
                   returned, ideal_env, real_env, symmetry_vars,
                   utility_vars>>

NextChem == GetChemicalDistance

SpecChem == InitChem /\ [][NextChem]_vars

\* =================================================== the symmetry analyzer
\* ---------------------------------------------------------------- bounds
NLetters == 2
NNumbers == 2
NSymAtoms == 2
MaxProper == 2
MaxImproper == 1
NStructures == 2

\* ---------------------------------------------------------------- values
\* Wyckoff letters in alphabetical order and atomic numbers.
Letters == 1 .. NLetters
AtomicNumbers == 1 .. NNumbers
SymAtoms == 1 .. NSymAtoms

\* Scaled coordinates lie on a grid with Unity steps to the cell edge; the
\* precision 1E-5 of get_wrapped_positions is Precision steps.  A position
\* is one scaled coordinate.
Unity == 6
Precision == 2

Max(S) == CHOOSE x \in S : \A y \in S : y <= x

SeqsUpTo(S, n) == UNION {[1 .. k -> S] : k \in 0 .. n}

\* geometry.get_wrapped_positions, for one coordinate and for an array.
wrap(c) ==
    LET w == c % Unity
    IN IF w < Precision \/ Unity - w < Precision THEN 0 ELSE w

get_wrapped_positions(scaled_pos) ==
    [i \in DOMAIN scaled_pos |-> wrap(scaled_pos[i])]

\* A rigid transformation in homogeneous coordinates: x -> a*x + t.
Transformation(a, t) == [a |-> a, t |-> t]
dot(pos, transformation) == transformation.a * pos + transformation.t

\* The letter permutations a tabulated transformation may carry: dicts from
\* some letters to letters.
LetterPermutations == UNION {[D -> Letters] : D \in SUBSET Letters}

\* The tabulated transformations offered: an inversion with any permutation.
Tabulated ==
    {[transformation |-> Transformation(-1, 0), permutations |-> perm] :
        perm \in LetterPermutations}

\* The tables for one space group: no entry, or a list of transformations.
Tables(space_group, n) ==
    {<<>>} \cup {[sg \in {space_group} |-> list] : list \in SeqsUpTo(Tabulated, n)}

\* The systems handed to the ground state search: atomic numbers and scaled
\* positions, one near a cell face and one inside the cell.
PositionSamples == {1, 3}
GroundSystems ==
    [numbers : [SymAtoms -> AtomicNumbers],
     positions : [SymAtoms -> PositionSamples]]

\* --------------------------------------------- _find_wyckoff_ground_state
\* Lines 993-997.
identity(old_wyckoff_letters) ==
    [transformation |-> Transformation(1, 0),
     permutations |-> [x \in Range(old_wyckoff_letters) |-> x],
     identity |-> TRUE]

\* TABLE.get(space_group), with nothing to extend the list by for None.
tabulated(table, space_group) ==
    IF space_group \in DOMAIN table THEN table[space_group] ELSE <<>>

\* transform_list with the test of line 1003 left out.
transform_list_improper(space_group, old_wyckoff_letters, is_flat) ==
    <<identity(old_wyckoff_letters)>>
        \o tabulated(PROPER_RIGID_TRANSFORMATIONS, space_group)
        \o tabulated(IMPROPER_RIGID_TRANSFORMATIONS, space_group)

\* Lines 992-1006.
transform_list(space_group, old_wyckoff_letters, is_flat) ==
    <<identity(old_wyckoff_letters)>>
        \o tabulated(PROPER_RIGID_TRANSFORMATIONS, space_group)
        \o (IF is_flat
            THEN tabulated(IMPROPER_RIGID_TRANSFORMATIONS, space_group)
            ELSE <<>>)

\* Lines 1023-1037: the number of atoms per (new letter, atomic number); an
\* atom whose letter the permutation does not map is not counted.
wyckoff_positions(perm, old_wyckoff_letters, atomic_numbers) ==
    LET mapped == {i \in DOMAIN old_wyckoff_letters :
                      old_wyckoff_letters[i] \in DOMAIN perm}
        key(i) == <<perm[old_wyckoff_letters[i]], atomic_numbers[i]>>
    IN [k \in {key(i) : i \in mapped} |->
           Cardinality({i \in mapped : key(i) = k})]

\* Lines 1019-1038: the "identity" entry of a transform is not copied.
representation(transform, old_wyckoff_letters, atomic_numbers) ==
    [transformation |-> transform.transformation,
     permutations |-> transform.permutations,
     wyckoff_positions |->
        wyckoff_positions(transform.permutations, old_wyckoff_letters,
                          atomic_numbers)]

RECURSIVE sorted(_)
\* sorted(set)
sorted(S) ==
    IF S = {} THEN <<>>
    ELSE LET least == CHOOSE x \in S : \A y \in S : x <= y
         IN <<least>> \o sorted(S \ {least})

\* Lines 1041-1046.
gathered_letters(transforms) ==
    sorted(UNION {Range(transforms[i].permutations) : i \in DOMAIN transforms})

has_key(r, w, z) == <<w, z>> \in DOMAIN r.wyckoff_positions

\* narrow_key that keeps every representation with atoms at the key.
narrow_key_any(state, w, z) ==
    LET representations == state.representations
        counts == {representations[i].wyckoff_positions[<<w, z>>] :
                      i \in {i \in DOMAIN representations :
                                has_key(representations[i], w, z)}}
        n_atoms_max == Max(counts \cup {0})
        kept == IF n_atoms_max # 0
                THEN SelectSeq(representations,
                               LAMBDA r : has_key(r, w, z))
                ELSE representations
    IN [representations |-> kept,
        found |-> state.found \/ Len(kept) = 1]

\* Lines 1059-1071: the representations with the most atoms at (w, z) stay,
\* all of them if none has an atom there.
narrow_key(state, w, z) ==
    LET representations == state.representations
        counts == {representations[i].wyckoff_positions[<<w, z>>] :
                      i \in {i \in DOMAIN representations :
                                has_key(representations[i], w, z)}}
        n_atoms_max == Max(counts \cup {0})
        kept == IF n_atoms_max # 0
                THEN SelectSeq(representations,
                               LAMBDA r : /\ has_key(r, w, z)
                                          /\ r.wyckoff_positions[<<w, z>>]
                                                = n_atoms_max)
                ELSE representations
    IN [representations |-> kept,
        found |-> state.found \/ Len(kept) = 1]

RECURSIVE narrow_z(_, _, _, _)
\* Lines 1058-1071: the loop over the atomic numbers, from the k-th on.
narrow_z(state, w, atomic_numbers, k) ==
    IF k > Len(atomic_numbers) THEN state
    ELSE narrow_z(narrow_key(state, w, atomic_numbers[k]),
                  w, atomic_numbers, k + 1)

\* narrow_w that is left after the first letter.
narrow_w_first(state, wyckoff_letters, atomic_numbers, j) ==
    IF j > Len(wyckoff_letters) \/ state.found THEN state
    ELSE narrow_z(state, wyckoff_letters[j], atomic_numbers, 1)

RECURSIVE narrow_w(_, _, _, _)
\* Lines 1055-1071: the loop over the letters, from the j-th on; it is left
\* at the letter after the one at which a single representation remained.
narrow_w(state, wyckoff_letters, atomic_numbers, j) ==
    IF j > Len(wyckoff_letters) \/ state.found THEN state
    ELSE narrow_w(narrow_z(state, wyckoff_letters[j], atomic_numbers, 1),
                  wyckoff_letters, atomic_numbers, j + 1)

\* Lines 1075-1085: the exception of the comparison of the remaining
\* representations with the first one, or "none".
narrowing_error(representations) ==
    LET new_wyckoffs == representations[1].wyckoff_positions
        differs(i_wyckoffs) ==
            \/ Cardinality(DOMAIN i_wyckoffs)
                  # Cardinality(DOMAIN new_wyckoffs)
            \/ \E key \in DOMAIN new_wyckoffs \cap DOMAIN i_wyckoffs :
                  i_wyckoffs[key] # new_wyckoffs[key]
    IN IF Len(representations) <= 1 THEN "none"
       ELSE IF \E i \in 2 .. Len(representations) :
                  differs(representations[i].wyckoff_positions)
       THEN "SystaxError"
       ELSE IF \E i \in 2 .. Len(representations) :
                  DOMAIN representations[i].wyckoff_positions
                     # DOMAIN new_wyckoffs
       THEN "KeyError"
       ELSE "none"

\* What a call leaves: the exception, self._best_transform, the returned
\* system and letters, and the candidates it had and was left with.
Ground(error, best_transform, system, wyckoff_letters, transforms, remaining) ==
    [raised |-> error,
     _best_transform |-> best_transform,
     system |-> system,
     wyckoff_letters |-> wyckoff_letters,
     transform_list |-> transforms,
     representations |-> remaining]

\* dict.get("identity")
is_identity(best_representation) ==
    "identity" \in DOMAIN best_representation /\ best_representation.identity

\* permuted that leaves every atom its letter.
permuted_unchanged(permutations, old_wyckoff_letters) == old_wyckoff_letters

\* Lines 1097-1101: perm.get(old_w) for every atom.
permuted(permutations, old_wyckoff_letters) ==
    [i \in DOMAIN old_wyckoff_letters |->
        IF old_wyckoff_letters[i] \in DOMAIN permutations
        THEN permutations[old_wyckoff_letters[i]]
        ELSE absent]

\* Lines 1104-1118.
transformed(system, transformation) ==
    [system EXCEPT !.positions =
        get_wrapped_positions(
            [i \in DOMAIN system.positions |->
                dot(system.positions[i], transformation)])]

\* Lines 1086-1120.
apply_best(narrowed, old_wyckoff_letters, system, transforms) ==
    IF narrowing_error(narrowed.representations) # "none"
    THEN Ground(narrowing_error(narrowed.representations), None, None, None,
                transforms, narrowed.representations)
    ELSE IF is_identity(narrowed.representations[1])
    THEN Ground("none", Some(transforms[1]), Some(system),
                Some(old_wyckoff_letters), transforms,
                narrowed.representations)
    ELSE Ground("none", Some(narrowed.representations[1]),
                Some(transformed(system,
                         narrowed.representations[1].transformation)),
                Some(permuted(narrowed.representations[1].permutations,
                              old_wyckoff_letters)),
                transforms, narrowed.representations)

\* Lines 1010-1071.
choose_best(transforms, old_wyckoff_letters, system) ==
    IF Len(transforms) = 1
    THEN Ground("none", Some(transforms[1]), Some(system),
                Some(old_wyckoff_letters), transforms, <<>>)
    ELSE apply_best(
             narrow_w([representations |->
                          [i \in DOMAIN transforms |->
                              representation(transforms[i],
                                             old_wyckoff_letters,
                                             system.numbers)],
                       found |-> FALSE],
                      gathered_letters(transforms),
                      sorted(Range(system.numbers)), 1),
             old_wyckoff_letters, system, transforms)

_find_wyckoff_ground_state(space_group, old_wyckoff_letters, system, is_flat) ==
    choose_best(transform_list(space_group, old_wyckoff_letters, is_flat),
                old_wyckoff_letters, system)

\* ----------------------------- _find_wyckoff_ground_state on its own
\* No defect classification is in use.
NoCollection ==
    /\ units = <<>>
    /\ raised = "none"
    /\ is_2d = FALSE
    /\ neighbour_map = <<>>
    /\ real_environment = <<>>
    /\ NoCaches
    /\ returned = [get_interstitials |-> None, get_unknowns |-> None]
    /\ NoChemistry

collection_vars ==
    <<units, raised, is_2d, neighbour_map, real_environment,
      _basis_indices, _decomposition, _inside_indices, _outside_indices,
      _adsorbates, _substitutions, _vacancies, returned,
      ideal_env, real_env, chem_dist>>

InitGround ==
    /\ NoCollection
    /\ NoUtilities
    /\ analyzer = <<>>
    /\ spglib = <<>>
    /\ oracle_calls = 0
    /\ last = <<>>
    /\ PROPER_RIGID_TRANSFORMATIONS \in Tables(1, MaxProper)
    /\ IMPROPER_RIGID_TRANSFORMATIONS \in Tables(1, MaxImproper)
    /\ ground_input \in
          [space_group : {1},
           old_wyckoff_letters : [SymAtoms -> Letters],
           system : GroundSystems,
           is_flat : BOOLEAN]
    /\ ground_state = None
    /\ wyckoff_input = <<>>
    /\ wyckoff_groups = None

FindWyckoffGroundState ==
    /\ ground_state = None
    /\ ground_state' =
          Some(_find_wyckoff_ground_state(ground_input.space_group,
                                          ground_input.old_wyckoff_letters,
                                          ground_input.system,
                                          ground_input.is_flat))
    /\ UNCHANGED <<collection_vars, utility_vars,
                   analyzer, spglib, oracle_calls, last,
                   PROPER_RIGID_TRANSFORMATIONS,
                   IMPROPER_RIGID_TRANSFORMATIONS,
                   ground_input, wyckoff_input, wyckoff_groups>>

NextGround == FindWyckoffGroundState

SpecGround == InitGround /\ [][NextGround]_vars

\* ------------------- _find_wyckoff_ground_state on its own result
\* The letters of the second search and the tabulated transformations
\* offered to it, whose letter maps are permutations of all letters: one
\* letter more than NLetters, so that a permutation applied twice can differ
\* from the permutation and from the identity.
RelabelLetters == 1 .. NLetters + 1

TotalTabulated ==
    {[transformation |-> Transformation(-1, 0), permutations |-> perm] :
        perm \in {f \in [RelabelLetters -> RelabelLetters] :
                     Range(f) = RelabelLetters}}

InitAgain ==
    /\ NoCollection
    /\ analyzer = <<>>
    /\ spglib = <<>>
    /\ oracle_calls = 0
    /\ last = <<>>
    /\ PROPER_RIGID_TRANSFORMATIONS \in
          {[sg \in {1} |-> list] : list \in SeqsUpTo(TotalTabulated, MaxProper)}
    /\ IMPROPER_RIGID_TRANSFORMATIONS = <<>>
    /\ ground_input \in
          [space_group : {1},
           old_wyckoff_letters : [SymAtoms -> RelabelLetters],
           system : GroundSystems,
           is_flat : {FALSE}]
    /\ ground_state = None
    /\ wyckoff_input = <<>>
    /\ wyckoff_groups = None
    /\ ground_again = None
    /\ fit_input = <<>>
    /\ lattice_fit = <<>>
    /\ _intervals = <<>>
    /\ _merged_intervals = <<>>
    /\ _merged_intervals_need_update = FALSE
    /\ intervals_last = <<>>

\* The search is run on the system and the letters it has returned.
FindWyckoffGroundStateAgain ==
    /\ ground_state # None
    /\ ground_state[1].raised = "none"
    /\ ground_again = None
    /\ ground_again' =
          Some(_find_wyckoff_ground_state(ground_input.space_group,
                                          ground_state[1].wyckoff_letters[1],
                                          ground_state[1].system[1],
                                          ground_input.is_flat))
    /\ UNCHANGED <<collection_vars, symmetry_vars, fit_input, lattice_fit,
                   _intervals, _merged_intervals,
                   _merged_intervals_need_update, intervals_last>>

NextAgain ==
    \/ FindWyckoffGroundState
    \/ FindWyckoffGroundStateAgain

SpecAgain == InitAgain /\ [][NextAgain]_vars

\* ------------------------------------------------------ SymmetryAnalyzer
MaxOracleCalls == 2

StructureIds == 1 .. NStructures

\* An ASE.Atoms system as far as the analyzer reads it: the input it stems
\* from, which axes are periodic and how many, whether its thickness along
\* the non-periodic axis is below 0.5*symmetry_tol, that thickness, its cell
\* and whether the cell has been padded with vacuum.  A basis vector is a
\* direction and a length; the directions of the sample cell differ.
MaxThickness == 2

Axes == 1 .. 3

BasisVector(direction, length) == [direction |-> direction, length |-> length]

CellSample == [axis \in Axes |-> BasisVector(axis, axis + 3)]

n_periodic(pbc) == Cardinality({axis \in Axes : pbc[axis]})

System(id, pbc, flat, thickness) ==
    [id |-> id, n_pbc |-> n_periodic(pbc), flat |-> flat, padded |-> FALSE,
     pbc |-> pbc, thickness |-> thickness, cell |-> CellSample]

\* The periodic axes of the inputs: none, one, two (the non-periodic axis
\* last or first) and three.
Periodicities ==
    {<<FALSE, FALSE, FALSE>>, <<TRUE, FALSE, FALSE>>, <<TRUE, TRUE, FALSE>>,
     <<FALSE, TRUE, TRUE>>, <<TRUE, TRUE, TRUE>>}

\* get_thickness is read for a system with two periodic axes only.
Thicknesses(pbc) ==
    IF n_periodic(pbc) = 2 THEN 1 .. MaxThickness ELSE {1}

InputSystems ==
    UNION {{System(id, pbc, flat, thickness) :
                id \in StructureIds, flat \in BOOLEAN,
                thickness \in Thicknesses(pbc)} : pbc \in Periodicities}

\* The fields reset clears.
CachedFields ==
    {"_symmetry_dataset",
     "_conventional_system", "_conventional_wyckoff_letters",
     "_conventional_equivalent_atoms", "_conventional_lattice_fit",
     "_spglib_conventional_system", "_spglib_wyckoff_letters_conventional",
     "_spglib_equivalent_atoms_conventional",
     "_spglib_primitive_system", "_spglib_wyckoff_letters_primitive",
     "_spglib_equivalent_atoms_primitive",
     "_spglib_primitive_to_original_mapping",
     "_primitive_system", "_primitive_wyckoff_letters",
     "_primitive_equivalent_atoms",
     "_best_transform"}

Fields == CachedFields \cup {"_original_system", "_analyzed_system"}

\* No analyzer has been constructed.
NoObject == [field \in Fields |-> None]

\* What spglib.get_symmetry_dataset returns for a system it can analyse, as
\* far as the analyzer reads it.  The field system stands for the parts that
\* are computed from the cell and the positions (std_lattice, rotations,
\* translations, ...).  Which space group, letters and species the oracle
\* finds is an input: structure 1 is of a space group without tabulated
\* transformations and a primitive lattice, the others are not.
symmetry_dataset(system) ==
    [system |-> system,
     number |-> system.id,
     international |-> IF system.id = 1 THEN "P" ELSE "I",
     wyckoffs |-> [i \in SymAtoms |-> ((i - 1) % NLetters) + 1],
     equivalent_atoms |-> [i \in SymAtoms |-> i],
     mapping_to_primitive |-> [i \in SymAtoms |-> i],
     std_types |-> [i \in SymAtoms |-> ((NSymAtoms - i) % NNumbers) + 1],
     std_positions |-> [i \in SymAtoms |-> IF i = 1 THEN 1 ELSE 3],
     std_mapping_to_primitive |-> [i \in SymAtoms |-> i]]

\* The tables the analyzer is run with: for every space group but the first
\* a proper transformation that reverses the letters and an improper one
\* that keeps them.
ProperSample ==
    [space_group \in StructureIds \ {1} |->
        <<[transformation |-> Transformation(-1, 0),
           permutations |-> [w \in Letters |-> NLetters + 1 - w]]>>]
ImproperSample ==
    [space_group \in StructureIds \ {1} |->
        <<[transformation |-> Transformation(-1, 0),
           permutations |-> [w \in Letters |-> w]]>>]

\* The object and the bookkeeping of a call, as the methods thread them
\* through their nested calls: the fields, the pending exception, the
\* calls of the oracle, the ground state search the call went through, and
\* for set_system the fields that held a value and the system bound before.
Call(obj, calls) ==
    [obj |-> obj, error |-> "none", calls |-> calls, ground |-> None,
     cleared |-> {}, previous |-> None]

failed(r) == r.self.error # "none"

\* self.<field> = value; return value
store(self, field, value) ==
    Result([self EXCEPT !.obj[field] = Some(value)], value)

\* return self.<field>
cached(self, field) == Result(self, self.obj[field][1])

\* reset that leaves the best transform in place.
reset_keeping_transform(obj) ==
    [field \in DOMAIN obj |->
        IF field \in CachedFields \ {"_best_transform"} THEN None
        ELSE obj[field]]

\* Lines 86-109.
reset(obj) ==
    [field \in DOMAIN obj |->
        IF field \in CachedFields THEN None ELSE obj[field]]

\* analyzed_system that takes every system as a bulk structure.
analyzed_system_unchecked(system) == Some(system)

\* Line 64: the index of the non-periodic axis.
i_pbc(system) == CHOOSE axis \in Axes :
    /\ ~system.pbc[axis]
    /\ \A other \in Axes : ~system.pbc[other] => axis <= other

\* Line 71: the length the non-periodic basis vector is given.
vacuum_factor == 3

vacuum_thickness_bare(system) == vacuum_factor * system.thickness

vacuum_thickness(system) ==
    IF vacuum_factor * system.thickness > 5
    THEN vacuum_factor * system.thickness
    ELSE 5

\* Lines 72-77: the cell with the non-periodic basis vector normalised and
\* stretched to the vacuum thickness.
padded_cell(system) ==
    [system.cell EXCEPT
        ![i_pbc(system)] =
            BasisVector(system.cell[i_pbc(system)].direction,
                        vacuum_thickness(system))]

\* Lines 70-78: the copy of the system with the padded cell.
symmetry_broken_system(system) ==
    [system EXCEPT !.padded = TRUE, !.cell = padded_cell(system)]

\* Lines 56-84: the system the oracle is to be given, or None if the system
\* has neither two nor three periodic axes.
analyzed_system(system) ==
    IF system.n_pbc = 3 THEN Some(system)
    ELSE IF system.n_pbc = 2 THEN Some(symmetry_broken_system(system))
    ELSE None

\* The call starts: what the object holds when set_system is entered.
entered(self) ==
    [self EXCEPT
        !.calls = 0,
        !.cleared = {field \in CachedFields : self.obj[field] # None},
        !.previous = self.obj["_original_system"]]

\* Lines 45-84: the fields after set_system(system), and its exception.
set_system(self, system) ==
    IF analyzed_system(system) # None
    THEN Result([entered(self) EXCEPT
                    !.obj = [reset(self.obj) EXCEPT
                                !["_original_system"] = Some(system),
                                !["_analyzed_system"] =
                                    analyzed_system(system)]],
                None)
    ELSE raise([entered(self) EXCEPT
                   !.obj = [reset(self.obj) EXCEPT
                               !["_original_system"] = Some(system)]],
               "ValueError")

\* segfault_protect(spglib.get_symmetry_dataset, description, tol): the
\* dataset, None, or RuntimeError when the oracle's process dies.
segfault_protect(system) == spglib[system.id]

oracle_called(self) == [self EXCEPT !.calls = @ + 1]

\* symmetry_dataset_of without the test of line 578.
symmetry_dataset_unchecked(self, outcome) ==
    IF outcome = "RuntimeError"
    THEN raise(self, "CellNormalizationError")
    ELSE store(self, "_symmetry_dataset",
               symmetry_dataset(self.obj["_analyzed_system"][1]))

\* Lines 568-584.
symmetry_dataset_of(self, outcome) ==
    IF outcome = "RuntimeError"
    THEN raise(self, "CellNormalizationError")
    ELSE IF outcome = "None"
    THEN raise(self, "CellNormalizationError")
    ELSE store(self, "_symmetry_dataset",
               symmetry_dataset(self.obj["_analyzed_system"][1]))

\* get_symmetry_dataset without the test of line 562.
get_symmetry_dataset_uncached(self) ==
    symmetry_dataset_of(
        oracle_called(self),
        segfault_protect(self.obj["_analyzed_system"][1]))

\* Lines 559-584.
get_symmetry_dataset(self) ==
    IF self.obj["_symmetry_dataset"] # None
    THEN cached(self, "_symmetry_dataset")
    ELSE symmetry_dataset_of(
             oracle_called(self),
             segfault_protect(self.obj["_analyzed_system"][1]))

\* dataset[key]
item(dataset, key) ==
    IF failed(dataset) THEN dataset
    ELSE Result(dataset.self, dataset.ret[key])

get_space_group_number(self) == item(get_symmetry_dataset(self), "number")

get_space_group_international_short(self) ==
    item(get_symmetry_dataset(self), "international")

\* Lines 597-603.
spglib_conventional_system(dataset) ==
    IF failed(dataset) THEN dataset
    ELSE store(dataset.self, "_spglib_conventional_system",
               [origin |-> dataset.ret.system,
                numbers |-> dataset.ret.std_types,
                positions |-> dataset.ret.std_positions])

_get_spglib_conventional_system(self) ==
    IF self.obj["_spglib_conventional_system"] # None
    THEN cached(self, "_spglib_conventional_system")
    ELSE spglib_conventional_system(get_symmetry_dataset(self))

\* np.unique(mapping, return_index=True)[1]: the first index of every value,
\* in the order of the values.
RECURSIVE first_indices(_, _)
first_indices(mapping, values) ==
    IF values = {} THEN <<>>
    ELSE LET value == CHOOSE x \in values : \A y \in values : x <= y
         IN <<CHOOSE i \in DOMAIN mapping :
                 /\ mapping[i] = value
                 /\ \A j \in DOMAIN mapping : mapping[j] = value => i <= j>>
            \o first_indices(mapping, values \ {value})

\* array[indices]
take(array, indices) == [i \in DOMAIN indices |-> array[indices[i]]]

\* Lines 771-774.
primitive_to_original_mapping(dataset) ==
    IF failed(dataset) THEN dataset
    ELSE store(dataset.self, "_spglib_primitive_to_original_mapping",
               first_indices(dataset.ret.mapping_to_primitive,
                             Range(dataset.ret.mapping_to_primitive)))

_get_spglib_primitive_to_original_mapping(self) ==
    IF self.obj["_spglib_primitive_to_original_mapping"] # None
    THEN cached(self, "_spglib_primitive_to_original_mapping")
    ELSE primitive_to_original_mapping(get_symmetry_dataset(self))

\* Lines 743-744 and 757-758.
mapped_to_primitive(field, original, mapping) ==
    IF failed(mapping) THEN mapping
    ELSE store(mapping.self, field, take(original, mapping.ret))

\* Lines 742-743 and 756-757.
original_to_primitive(field, original) ==
    IF failed(original) THEN original
    ELSE mapped_to_primitive(
             field, original.ret,
             _get_spglib_primitive_to_original_mapping(original.self))

\* Lines 734-759: the letters (key "wyckoffs") or the equivalent atoms (key
\* "equivalent_atoms") of the primitive system of spglib.
spglib_primitive(self, field, key) ==
    IF self.obj[field] # None THEN cached(self, field)
    ELSE original_to_primitive(field, item(get_symmetry_dataset(self), key))

_get_spglib_wyckoff_letters_primitive(self) ==
    spglib_primitive(self, "_spglib_wyckoff_letters_primitive", "wyckoffs")

_get_spglib_equivalent_atoms_primitive(self) ==
    spglib_primitive(self, "_spglib_equivalent_atoms_primitive",
                     "equivalent_atoms")

\* Lines 635-636 and 648-649.
mapped_to_conventional(field, primitive, mapping) ==
    IF failed(mapping) THEN mapping
    ELSE store(mapping.self, field, take(primitive, mapping.ret))

\* Lines 634-635 and 647-648.
primitive_to_conventional(field, primitive) ==
    IF failed(primitive) THEN primitive
    ELSE mapped_to_conventional(
             field, primitive.ret,
             item(get_symmetry_dataset(primitive.self),
                  "std_mapping_to_primitive"))

_get_spglib_wyckoff_letters_conventional(self) ==
    IF self.obj["_spglib_wyckoff_letters_conventional"] # None
    THEN cached(self, "_spglib_wyckoff_letters_conventional")
    ELSE primitive_to_conventional(
             "_spglib_wyckoff_letters_conventional",
             _get_spglib_wyckoff_letters_primitive(self))

_get_spglib_equivalent_atoms_conventional(self) ==
    IF self.obj["_spglib_equivalent_atoms_conventional"] # None
    THEN cached(self, "_spglib_equivalent_atoms_conventional")
    ELSE primitive_to_conventional(
             "_spglib_equivalent_atoms_conventional",
             _get_spglib_equivalent_atoms_primitive(self))

\* Lines 312-319 and 357-373: the fields of the conventional system are
\* assigned once the ground state search has returned.
conventional_system(self, equivalent_atoms, n_pbc, ground) ==
    IF ground.raised # "none"
    THEN raise([self EXCEPT !.ground = Some(ground)], ground.raised)
    ELSE Result(
             [self EXCEPT
                 !.ground = Some(ground),
                 !.obj["_best_transform"] = ground._best_transform,
                 !.obj["_conventional_system"] =
                     Some([system |-> ground.system[1],
                           wyckoff_letters |-> ground.wyckoff_letters[1],
                           equivalent_atoms |-> equivalent_atoms,
                           minimized |-> n_pbc = 2]),
                 !.obj["_conventional_wyckoff_letters"] =
                     ground.wyckoff_letters,
                 !.obj["_conventional_equivalent_atoms"] =
                     Some(equivalent_atoms)],
             [system |-> ground.system[1],
              wyckoff_letters |-> ground.wyckoff_letters[1],
              equivalent_atoms |-> equivalent_atoms,
              minimized |-> n_pbc = 2])

\* Lines 306-311 and 342-348.
conventional_4(spglib_conv_sys, space_group, wyckoff_letters, equivalent_atoms, n_pbc, is_flat) ==
    IF failed(equivalent_atoms) THEN equivalent_atoms
    ELSE conventional_system(
             equivalent_atoms.self, equivalent_atoms.ret, n_pbc,
             _find_wyckoff_ground_state(space_group, wyckoff_letters,
                                        spglib_conv_sys, is_flat))

\* Lines 305-306 and 341-342.
conventional_3(spglib_conv_sys, space_group, wyckoff_letters, n_pbc, is_flat) ==
    IF failed(wyckoff_letters) THEN wyckoff_letters
    ELSE conventional_4(
             spglib_conv_sys, space_group, wyckoff_letters.ret,
             _get_spglib_equivalent_atoms_conventional(wyckoff_letters.self),
             n_pbc, is_flat)

\* Lines 304-305 and 340-341.
conventional_2(spglib_conv_sys, space_group, n_pbc, is_flat) ==
    IF failed(space_group) THEN space_group
    ELSE conventional_3(
             spglib_conv_sys, space_group.ret,
             _get_spglib_wyckoff_letters_conventional(space_group.self),
             n_pbc, is_flat)

\* Lines 300-304 and 329-340.
conventional_1(spglib_conv_sys, n_pbc, is_flat) ==
    IF failed(spglib_conv_sys) THEN spglib_conv_sys
    ELSE conventional_2(spglib_conv_sys.ret,
                        get_space_group_number(spglib_conv_sys.self),
                        n_pbc, is_flat)

\* systax.geometry.get_thickness(system, i_pbc) < 0.5*self.symmetry_tol
is_flat(system) == system.flat

\* Lines 287-375.  The ground state search is told about flatness for a
\* system with two periodic axes only.
get_conventional_system(self) ==
    IF self.obj["_conventional_system"] # None
    THEN cached(self, "_conventional_system")
    ELSE IF self.obj["_original_system"][1].n_pbc = 3
    THEN conventional_1(_get_spglib_conventional_system(self), 3, FALSE)
    ELSE IF self.obj["_original_system"][1].n_pbc = 2
    THEN conventional_1(_get_spglib_conventional_system(self), 2,
                        is_flat(self.obj["_original_system"][1]))
    ELSE raise(self, "ValueError")

\* Lines 496-498 and 544-557: return a field that another getter assigns.
field_after(done, field) ==
    IF failed(done) THEN done ELSE cached(done.self, field)

get_wyckoff_letters_conventional(self) ==
    IF self.obj["_conventional_wyckoff_letters"] = None
    THEN field_after(get_conventional_system(self),
                     "_conventional_wyckoff_letters")
    ELSE cached(self, "_conventional_wyckoff_letters")

\* Lines 527-536: the method called at line 535 does not exist.
get_equivalent_atoms_conventional(self) ==
    IF self.obj["_spglib_equivalent_atoms_conventional"] = None
    THEN raise(self, "AttributeError")
    ELSE cached(self, "_spglib_equivalent_atoms_conventional")

\* Lines 804-868: the conventional system is the primitive one for the
\* centring P; otherwise one atom is kept for every atom of the primitive
\* cell.
_get_primitive_system(self, conv_system, conv_wyckoff, conv_equivalent, space_group_international_short) ==
    IF space_group_international_short = "P"
    THEN <<conv_system, conv_wyckoff, conv_equivalent>>
    ELSE LET conv_to_prim_map ==
                 self.obj["_symmetry_dataset"][1].std_mapping_to_primitive
             inside_mask == first_indices(conv_to_prim_map,
                                          Range(conv_to_prim_map))
         IN <<[primitive |-> TRUE,
               centring |-> space_group_international_short,
               system |-> [conv_system.system EXCEPT
                              !.numbers = take(@, inside_mask),
                              !.positions = take(@, inside_mask)]],
              take(conv_wyckoff, inside_mask),
              take(conv_equivalent, inside_mask)>>

\* Lines 281-285.
store_primitive(self, prim) ==
    Result([self EXCEPT
               !.obj["_primitive_system"] = Some(prim[1]),
               !.obj["_primitive_wyckoff_letters"] = Some(prim[2]),
               !.obj["_primitive_equivalent_atoms"] = Some(prim[3])],
           prim[1])

\* Lines 276-279.
primitive_4(conv_sys, conv_wyckoff, conv_equivalent, space_group_short) ==
    IF failed(space_group_short) THEN space_group_short
    ELSE store_primitive(
             space_group_short.self,
             _get_primitive_system(space_group_short.self, conv_sys,
                                   conv_wyckoff, conv_equivalent,
                                   space_group_short.ret))

\* Lines 275-276.
primitive_3(conv_sys, conv_wyckoff, conv_equivalent) ==
    IF failed(conv_equivalent) THEN conv_equivalent
    ELSE primitive_4(
             conv_sys, conv_wyckoff, conv_equivalent.ret,
             get_space_group_international_short(conv_equivalent.self))

\* Lines 274-275.
primitive_2(conv_sys, conv_wyckoff) ==
    IF failed(conv_wyckoff) THEN conv_wyckoff
    ELSE primitive_3(conv_sys, conv_wyckoff.ret,
                     get_equivalent_atoms_conventional(conv_wyckoff.self))

\* Lines 273-274.
primitive_1(conv_sys) ==
    IF failed(conv_sys) THEN conv_sys
    ELSE primitive_2(conv_sys.ret,
                     get_wyckoff_letters_conventional(conv_sys.self))

\* Lines 259-285.
get_primitive_system(self) ==
    IF self.obj["_primitive_system"] # None
    THEN cached(self, "_primitive_system")
    ELSE primitive_1(get_conventional_system(self))

\* Lines 393-423: the fit is computed from the conventional system and the
\* analyzed system.
conventional_lattice_fit(conv_sys) ==
    IF failed(conv_sys) THEN conv_sys
    ELSE store(conv_sys.self, "_conventional_lattice_fit",
               [conv_sys |-> conv_sys.ret,
                orig_sys |-> conv_sys.self.obj["_analyzed_system"][1]])

\* Lines 391-392: the conventional system is asked for twice.
lattice_fit_1(conv_sys) ==
    IF failed(conv_sys) THEN conv_sys
    ELSE conventional_lattice_fit(get_conventional_system(conv_sys.self))

\* Lines 377-423.
get_conventional_lattice_fit(self) ==
    IF self.obj["_conventional_lattice_fit"] # None
    THEN cached(self, "_conventional_lattice_fit")
    ELSE lattice_fit_1(get_conventional_system(self))

\* Lines 470-476: permutations[old_wyckoff] for every atom.
permuted_original(self, spglib_wyckoffs) ==
    IF \E i \in DOMAIN spglib_wyckoffs :
          spglib_wyckoffs[i]
             \notin DOMAIN self.obj["_best_transform"][1].permutations
    THEN raise(self, "KeyError")
    ELSE Result(self,
                [i \in DOMAIN spglib_wyckoffs |->
                    self.obj["_best_transform"][1]
                        .permutations[spglib_wyckoffs[i]]])

\* Lines 468-470.
letters_original_2(spglib_wyckoffs, conv_sys) ==
    IF failed(conv_sys) THEN conv_sys
    ELSE permuted_original(conv_sys.self, spglib_wyckoffs)

\* Lines 467-469.
letters_original_1(spglib_wyckoffs) ==
    IF failed(spglib_wyckoffs) THEN spglib_wyckoffs
    ELSE IF spglib_wyckoffs.self.obj["_best_transform"] = None
    THEN letters_original_2(spglib_wyckoffs.ret,
                            get_conventional_system(spglib_wyckoffs.self))
    ELSE permuted_original(spglib_wyckoffs.self, spglib_wyckoffs.ret)

\* Lines 462-476.
get_wyckoff_letters_original(self) ==
    letters_original_1(item(get_symmetry_dataset(self), "wyckoffs"))

\* ------------------------------------------- the analyzer and its callers
InitSym ==
    /\ NoCollection
    /\ NoUtilities
    /\ analyzer = NoObject
    /\ spglib \in [StructureIds -> {"dataset", "None", "RuntimeError"}]
    /\ oracle_calls = 0
    /\ last = [op |-> "none", system |-> None, raised |-> "none",
               ret |-> None, ground |-> None, cleared |-> {},
               previous |-> None]
    /\ PROPER_RIGID_TRANSFORMATIONS = ProperSample
    /\ IMPROPER_RIGID_TRANSFORMATIONS = ImproperSample
    /\ ground_input = <<>>
    /\ ground_state = None
    /\ wyckoff_input = <<>>
    /\ wyckoff_groups = None

\* An analyzer exists once its constructor has returned.
Constructed == analyzer["_analyzed_system"] # None

\* The call op(system) ended as r says.
Ended(op, system, r) ==
    /\ analyzer' = r.self.obj
    /\ oracle_calls' = r.self.calls
    /\ last' = [op |-> op, system |-> system, raised |-> r.self.error,
                ret |-> IF failed(r) THEN None ELSE Some(r.ret),
                ground |-> r.self.ground,
                cleared |-> r.self.cleared,
                previous |-> r.self.previous]
    /\ UNCHANGED <<collection_vars, utility_vars, spglib,
                   PROPER_RIGID_TRANSFORMATIONS,
                   IMPROPER_RIGID_TRANSFORMATIONS,
                   ground_input, ground_state, wyckoff_input,
                   wyckoff_groups>>

\* An exception in __init__ leaves no object behind.
constructed(r) ==
    IF failed(r) THEN Result([r.self EXCEPT !.obj = NoObject], None) ELSE r

\* SymmetryAnalyzer(system), lines 36-43.
Construct ==
    /\ ~Constructed
    /\ \E system \in InputSystems :
          Ended("__init__", Some(system),
                constructed(set_system(Call(NoObject, 0), system)))

SetSystem ==
    /\ Constructed
    /\ \E system \in InputSystems :
          Ended("set_system", Some(system),
                set_system(Call(analyzer, oracle_calls), system))

\* A getter is called on the analyzer.
Getter(op, r) ==
    /\ Constructed
    /\ oracle_calls < MaxOracleCalls
    /\ Ended(op, None, r)

GetSymmetryDataset ==
    Getter("get_symmetry_dataset",
           get_symmetry_dataset(Call(analyzer, oracle_calls)))

GetSpaceGroupNumber ==
    Getter("get_space_group_number",
           get_space_group_number(Call(analyzer, oracle_calls)))

GetConventionalSystem ==
    Getter("get_conventional_system",
           get_conventional_system(Call(analyzer, oracle_calls)))

GetWyckoffLettersConventional ==
    Getter("get_wyckoff_letters_conventional",
           get_wyckoff_letters_conventional(Call(analyzer, oracle_calls)))

GetEquivalentAtomsConventional ==
    Getter("get_equivalent_atoms_conventional",
           get_equivalent_atoms_conventional(Call(analyzer, oracle_calls)))

GetPrimitiveSystem ==
    Getter("get_primitive_system",
           get_primitive_system(Call(analyzer, oracle_calls)))

GetConventionalLatticeFit ==
    Getter("get_conventional_lattice_fit",
           get_conventional_lattice_fit(Call(analyzer, oracle_calls)))

GetWyckoffLettersOriginal ==
    Getter("get_wyckoff_letters_original",
           get_wyckoff_letters_original(Call(analyzer, oracle_calls)))

NextSym ==
    \/ Construct
    \/ SetSystem
    \/ GetSymmetryDataset
    \/ GetSpaceGroupNumber
    \/ GetConventionalSystem
    \/ GetWyckoffLettersConventional
    \/ GetEquivalentAtomsConventional
    \/ GetPrimitiveSystem
    \/ GetConventionalLatticeFit
    \/ GetWyckoffLettersOriginal

SpecSym == InitSym /\ [][NextSym]_vars

\* ----------------------------------------------- the conventional lattice
\* get_conventional_lattice_fit on its own (lines 391-423), for cells with
\* orthogonal basis vectors: a cell is the three lengths of its diagonal
\* matrix.  Numbers are exact fractions in lowest terms; the floats of the
\* code carry them with a relative error of about 1E-16.
MaxRepeat == 11
MaxLength == 2

RECURSIVE gcd(_, _)
gcd(a, b) == IF b = 0 THEN a ELSE gcd(b, a % b)

\* fractions.Fraction(numerator, denominator) for a positive fraction.
Fraction(numerator, denominator) ==
    [numerator |-> numerator \div gcd(numerator, denominator),
     denominator |-> denominator \div gcd(numerator, denominator)]

times(x, y) ==
    Fraction(x.numerator * y.numerator, x.denominator * y.denominator)

over(x, y) ==
    Fraction(x.numerator * y.denominator, x.denominator * y.numerator)

\* abs(x - y) <= abs(z - y) for fractions
nearer(x, z, y) ==
    LET distance(u) ==
            IF u.numerator * y.denominator >= y.numerator * u.denominator
            THEN Fraction(u.numerator * y.denominator
                              - y.numerator * u.denominator,
                          u.denominator * y.denominator)
            ELSE Fraction(y.numerator * u.denominator
                              - u.numerator * y.denominator,
                          u.denominator * y.denominator)
    IN distance(x).numerator * distance(z).denominator
          <= distance(z).numerator * distance(x).denominator

RECURSIVE convergents(_, _, _, _, _, _, _)
\* The loop of Fraction.limit_denominator: the last two convergents of the
\* continued fraction of n/d whose denominators do not exceed the limit.
convergents(p0, q0, p1, q1, n, d, max_denominator) ==
    IF q0 + (n \div d) * q1 > max_denominator
    THEN <<p0, q0, p1, q1>>
    ELSE convergents(p1, q1, p0 + (n \div d) * p1, q0 + (n \div d) * q1,
                     d, n - (n \div d) * d, max_denominator)

\* Fraction.limit_denominator(max_denominator)
limit_denominator(self, max_denominator) ==
    IF self.denominator <= max_denominator THEN self
    ELSE LET c == convergents(0, 1, 1, 0, self.numerator, self.denominator,
                              max_denominator)
             k == (max_denominator - c[2]) \div c[4]
             bound1 == Fraction(c[1] + k * c[3], c[2] + k * c[4])
             bound2 == Fraction(c[3], c[4])
         IN IF nearer(bound2, bound1, self) THEN bound2 ELSE bound1

\* Lines 395-402: the coefficients of the conventional cell in the original
\* cell, rounded to fractions with denominators up to 10.
coeff(conv_cell, orig_cell) ==
    [i \in 1 .. 3 |->
        limit_denominator(Fraction(conv_cell[i], orig_cell[i]), 10)]

\* Line 405.
new_std_lattice(conv_cell, orig_cell) ==
    [i \in 1 .. 3 |->
        times(coeff(conv_cell, orig_cell)[i], Fraction(orig_cell[i], 1))]

\* np.linalg.det of a diagonal matrix, and its absolute value.
det(lattice) == times(times(lattice[1], lattice[2]), lattice[3])

\* Lines 409-417.
factor(vol_original, vol_conv, n_atoms_original, n_atoms_conv) ==
    over(over(vol_original, Fraction(n_atoms_original, 1)),
         over(vol_conv, Fraction(n_atoms_conv, 1)))

\* Line 418: every entry of the matrix is multiplied by the factor.
scaled(lattice, by) == [i \in 1 .. 3 |-> times(lattice[i], by)]

\* Lines 391-423.
conventional_lattice_fit_of(conv_cell, orig_cell, n_atoms_conv, n_atoms_original) ==
    scaled(new_std_lattice(conv_cell, orig_cell),
           factor(det([i \in 1 .. 3 |-> Fraction(orig_cell[i], 1)]),
                  det(new_std_lattice(conv_cell, orig_cell)),
                  n_atoms_original, n_atoms_conv))

\* The analyzed cell repeats the conventional cell along its axes, up to
\* MaxRepeat times along the first one and up to twice along the others,
\* and holds as many times its atoms.
FitInputs ==
    {[conv_cell |-> <<a, a + 1, 1>>,
      orig_cell |-> <<k[1] * a, k[2] * (a + 1), k[3]>>,
      n_atoms_conv |-> n,
      n_atoms_original |-> k[1] * k[2] * k[3] * n] :
        a \in 1 .. MaxLength, n \in 1 .. 2,
        k \in (1 .. MaxRepeat) \X (1 .. 2) \X (1 .. 2)}

InitFit ==
    /\ NoCollection
    /\ NoSymmetry
    /\ ground_again = <<>>
    /\ fit_input \in FitInputs
    /\ lattice_fit = None
    /\ _intervals = <<>>
    /\ _merged_intervals = <<>>
    /\ _merged_intervals_need_update = FALSE
    /\ intervals_last = <<>>

GetConventionalLatticeFitOf ==
    /\ lattice_fit = None
    /\ lattice_fit' =
          Some(conventional_lattice_fit_of(
                   fit_input.conv_cell, fit_input.orig_cell,
                   fit_input.n_atoms_conv, fit_input.n_atoms_original))
    /\ UNCHANGED <<collection_vars, symmetry_vars, ground_again, fit_input,
                   _intervals, _merged_intervals,
                   _merged_intervals_need_update, intervals_last>>

NextFit == GetConventionalLatticeFitOf

SpecFit == InitFit /\ [][NextFit]_vars

\* -------------------------------------------------------------- Intervals
\* src/systax/geometry/geometry.py, lines 315-449.  The ends of an interval
\* are numbers from 0 to MaxPoint, and an object holds up to MaxIntervals
\* intervals.
MaxPoint == 2
MaxIntervals == 2

Points == 0 .. MaxPoint

\* What a caller passes as an interval: a pair in either order, or a tuple
\* of another length.
IntervalArgs == (Points \X Points) \cup {<<0, 1, 2>>}
IntervalLists == SeqsUpTo(IntervalArgs, MaxIntervals)

\* The fields of an Intervals object.
IntervalsObject(intervals, merged_intervals, need_update) ==
    [_intervals |-> intervals,
     _merged_intervals |-> merged_intervals,
     _merged_intervals_need_update |-> need_update]

IntervalsSelf ==
    IntervalsObject(_intervals, _merged_intervals,
                    _merged_intervals_need_update)

Min2(a, b) == IF a <= b THEN a ELSE b
Max2(a, b) == IF a <= b THEN b ELSE a

\* Lines 347-354.
add_interval(self, a, b) ==
    [self EXCEPT !._intervals = Append(@, <<Min2(a, b), Max2(a, b)>>),
                 !._merged_intervals_need_update = TRUE]

RECURSIVE add_intervals(_, _, _)
\* Lines 356-366: the loop from the k-th interval on; it ends with the
\* first tuple that is not a pair.  The exception is returned with self.
add_intervals(self, intervals, k) ==
    IF k > Len(intervals) THEN Result(self, "none")
    ELSE IF Len(intervals[k]) = 2
    THEN add_intervals(add_interval(self, intervals[k][1], intervals[k][2]),
                       intervals, k + 1)
    ELSE Result(self, "ValueError")

\* Lines 368-375.
set_intervals(self, intervals) ==
    add_intervals([self EXCEPT !._intervals = <<>>], intervals, 1)

\* del list[i] for a Python index i, negative ones counted from the end;
\* None for an IndexError.
deleted(list, i) ==
    LET at == IF i < 0 THEN Len(list) + i + 1 ELSE i + 1
    IN IF at \in DOMAIN list
       THEN Some([k \in 1 .. Len(list) - 1 |->
                     IF k < at THEN list[k] ELSE list[k + 1]])
       ELSE None

\* Lines 377-387.
remove_interval(self, i) ==
    IF deleted(self._intervals, i) # None
    THEN [self EXCEPT !._intervals = deleted(self._intervals, i)[1],
                      !._merged_intervals_need_update = TRUE]
    ELSE self

RECURSIVE sorted_by_start(_)
\* Lines 394-397: sorted(list, key=start), a stable sort.
sorted_by_start(list) ==
    IF list = <<>> THEN <<>>
    ELSE LET first == CHOOSE k \in DOMAIN list :
                 \A j \in DOMAIN list :
                     \/ list[k][1] < list[j][1]
                     \/ list[k][1] = list[j][1] /\ k <= j
         IN <<list[first]>>
                \o sorted_by_start(
                       [k \in 1 .. Len(list) - 1 |->
                           IF k < first THEN list[k] ELSE list[k + 1]])

RECURSIVE merge_from(_, _, _)
\* Lines 415-422: the loop over the sorted intervals from the k-th on.
merge_from(merged, sorted_list, k) ==
    IF k > Len(sorted_list) THEN merged
    ELSE IF merged[Len(merged)][2] < sorted_list[k][1]
    THEN merge_from(Append(merged, sorted_list[k]), sorted_list, k + 1)
    ELSE IF merged[Len(merged)][2] < sorted_list[k][2]
    THEN merge_from([merged EXCEPT ![Len(merged)] =
                        <<merged[Len(merged)][1], sorted_list[k][2]>>],
                    sorted_list, k + 1)
    ELSE merge_from(merged, sorted_list, k + 1)

\* Lines 411-424.
merged_intervals(intervals) ==
    merge_from(<<sorted_by_start(intervals)[1]>>,
               sorted_by_start(intervals), 2)

\* Lines 404-425.
get_merged_intervals(self) ==
    IF self._merged_intervals_need_update
    THEN IF Len(self._intervals) < 1
         THEN Result(self, self._intervals)
         ELSE Result([self EXCEPT
                         !._merged_intervals =
                             merged_intervals(self._intervals),
                         !._merged_intervals_need_update = FALSE],
                     merged_intervals(self._intervals))
    ELSE Result(self, self._merged_intervals)

\* Lines 321-329: Intervals(intervals); nothing is left of a constructor
\* that raised.
InitIntervals ==
    /\ NoCollection
    /\ NoSymmetry
    /\ ground_again = <<>>
    /\ fit_input = <<>>
    /\ lattice_fit = <<>>
    /\ \E intervals \in IntervalLists :
          /\ add_intervals(IntervalsObject(<<>>, <<>>, TRUE), intervals, 1)
                .ret = "none"
          /\ _intervals =
                add_intervals(IntervalsObject(<<>>, <<>>, TRUE),
                              intervals, 1).self._intervals
    /\ _merged_intervals = <<>>
    /\ _merged_intervals_need_update = TRUE
    /\ intervals_last =
          [op |-> "__init__", raised |-> "none", ret |-> None]

\* A call on the object has ended.
IntervalsCalled(op, self, error, ret) ==
    /\ _intervals' = self._intervals
    /\ _merged_intervals' = self._merged_intervals
    /\ _merged_intervals_need_update' = self._merged_intervals_need_update
    /\ intervals_last' = [op |-> op, raised |-> error, ret |-> ret]
    /\ UNCHANGED <<collection_vars, symmetry_vars,
                   ground_again, fit_input, lattice_fit>>

AddInterval ==
    /\ Len(_intervals) < MaxIntervals
    /\ \E a, b \in Points :
          IntervalsCalled("add_interval", add_interval(IntervalsSelf, a, b),
                          "none", None)

AddIntervals ==
    \E intervals \in IntervalLists :
        /\ Len(_intervals) + Len(intervals) <= MaxIntervals
        /\ IntervalsCalled(
               "add_intervals",
               add_intervals(IntervalsSelf, intervals, 1).self,
               add_intervals(IntervalsSelf, intervals, 1).ret,
               None)

SetIntervals ==
    \E intervals \in IntervalLists :
        IntervalsCalled(
            "set_intervals",
            set_intervals(IntervalsSelf, intervals).self,
            set_intervals(IntervalsSelf, intervals).ret,
            None)

RemoveInterval ==
    \E i \in -MaxIntervals .. MaxIntervals :
        IntervalsCalled("remove_interval", remove_interval(IntervalsSelf, i),
                        "none", None)

GetMergedIntervals ==
    IntervalsCalled("get_merged_intervals",
                    get_merged_intervals(IntervalsSelf).self, "none",
                    Some(get_merged_intervals(IntervalsSelf).ret))

NextIntervals ==
    \/ AddInterval
    \/ AddIntervals
    \/ SetIntervals
    \/ RemoveInterval
    \/ GetMergedIntervals

SpecIntervals == InitIntervals /\ [][NextIntervals]_vars

\* ----------------------------------------------------- _get_wyckoff_groups
\* The scaled positions of the atoms: three coordinates on the grid.
Coordinates == {0, Precision, Unity - Precision}
ScaledPositions == [1 .. 3 -> Coordinates]

\* The search accuracy, in grid steps of a cubic unit cell: exact, or the
\* precision of the wrapping.
Accuracies == {0, Precision}

\* The variables in the order x, y, z and the coordinate each is read from
\* (lines 1275-1280).
Variables == <<"x", "y", "z">>
coordinate(variable) == CHOOSE i \in 1 .. 3 : Variables[i] = variable

\* One coordinate expression of WYCKOFF_POSITIONS: coef*variable + const,
\* with variable "" for a number.
Expr(coef, variable, const) ==
    [coef |-> coef, variable |-> variable, const |-> const]
Number(const) == Expr(0, "", const)

\* expr.replace(variable, str(value)) for every variable, then eval_expr.
eval_expr(expr, values) ==
    (IF expr.variable = "" THEN 0 ELSE expr.coef * values[expr.variable])
        + expr.const

\* The entries WYCKOFF_POSITIONS[space_group][letter] may have: a special
\* position without variables, a line, a diagonal line, a plane and the
\* general position, each but the first with its image under inversion.
WyckoffInfos ==
    {[variables |-> {},
      expressions |-> <<<<Number(0), Number(0), Number(0)>>>>],
     [variables |-> {"x"},
      expressions |->
         <<<<Expr(1, "x", 0), Number(0), Number(0)>>,
           <<Expr(-1, "x", 0), Number(0), Number(0)>>>>],
     [variables |-> {"x"},
      expressions |->
         <<<<Expr(1, "x", 0), Expr(1, "x", 0), Number(0)>>,
           <<Expr(-1, "x", 0), Expr(-1, "x", 0), Number(0)>>>>],
     [variables |-> {"x", "y"},
      expressions |->
         <<<<Expr(1, "x", 0), Expr(1, "y", 0), Number(0)>>,
           <<Expr(-1, "x", 0), Expr(-1, "y", 0), Number(0)>>>>],
     [variables |-> {"x", "y", "z"},
      expressions |->
         <<<<Expr(1, "x", 0), Expr(1, "y", 0), Expr(1, "z", 0)>>,
           <<Expr(-1, "x", 0), Expr(-1, "y", 0), Expr(-1, "z", 0)>>>>]}

\* Lines 955-962: the displacement of one coordinate, wrapped when it is
\* bigger than 0.5 or smaller than -0.5.
displacement(position, target) ==
    LET d == position - target
    IN IF 2 * d > Unity THEN d - Unity
       ELSE IF 2 * d < -Unity THEN d + Unity
       ELSE d

\* Lines 926-976, for one position to search in: the index 0 of the match, or
\* absent for None.
_search_periodic_positions(target_pos, pos, accuracy) ==
    LET square(d) == d * d
        distance2 ==
            square(displacement(pos[1], target_pos[1]))
                + square(displacement(pos[2], target_pos[2]))
                + square(displacement(pos[3], target_pos[3]))
    IN IF distance2 <= accuracy * accuracy THEN 0 ELSE absent

\* Lines 1272-1281: the values of the variables read from a position.
trial_values(pos, variables_present) ==
    [variable \in variables_present |-> pos[coordinate(variable)]]

\* Lines 1273-1287 and 1298-1303: an expression evaluated and wrapped.
evaluated(expression, values) ==
    get_wrapped_positions(
        [i_coord \in 1 .. 3 |-> eval_expr(expression[i_coord], values)])

\* wyckoff_coord_matched searching for eval_pos, the position of the
\* expression under test.
wyckoff_coord_matched_eval(evaluated_pos, eval_pos, indices, positions, accuracy) ==
    \E k \in DOMAIN indices :
        _search_periodic_positions(eval_pos, positions[indices[k]],
                                   accuracy) # absent

\* Lines 1305-1314: the loop over the group's atoms searches for
\* evaluated_pos, the position of the first expression.
wyckoff_coord_matched(evaluated_pos, eval_pos, indices, positions, accuracy) ==
    \E k \in DOMAIN indices :
        _search_periodic_positions(evaluated_pos, positions[indices[k]],
                                   accuracy) # absent

\* Lines 1296-1316.
variables_ok(evaluated_pos, values, info, indices, positions, accuracy) ==
    \A e \in 2 .. Len(info.expressions) :
        wyckoff_coord_matched(evaluated_pos,
                              evaluated(info.expressions[e], values),
                              indices, positions, accuracy)

\* Lines 1270-1319: whether the values read from the atom are collected.
collected(atom_index, info, indices, positions, accuracy) ==
    LET pos == positions[atom_index]
        values == trial_values(pos, info.variables)
        evaluated_pos == evaluated(info.expressions[1], values)
    IN /\ _search_periodic_positions(evaluated_pos, pos, accuracy) # absent
       /\ variables_ok(evaluated_pos, values, info, indices, positions,
                       accuracy)

\* Lines 1263-1319: variables_values, in the order of the group's atoms.
variables_values(info, indices, positions, accuracy) ==
    LET passing == SelectSeq(indices,
                       LAMBDA atom_index :
                           collected(atom_index, info, indices, positions,
                                     accuracy))
    IN [k \in DOMAIN passing |->
           trial_values(positions[passing[k]], info.variables)]

\* Lines 1341-1354: the row of test_variables of a variable set, the values
\* of x, y and z as far as present.
inversion_variables(variable_set) ==
    LET present == SelectSeq(Variables,
                             LAMBDA v : v \in DOMAIN variable_set)
    IN [i \in DOMAIN present |-> variable_set[present[i]]]

\* The order of np.lexsort(keys): by the last key, then by the one before
\* it, ..., ties in the order of the rows.
lexsort_before(row, other) ==
    \E i \in DOMAIN row :
        /\ row[i] < other[i]
        /\ \A j \in i + 1 .. Len(row) : row[j] = other[j]

\* The order by the first key, then by the second, ...
sorted_before(row, other) ==
    \E i \in DOMAIN row :
        /\ row[i] < other[i]
        /\ \A j \in 1 .. i - 1 : row[j] = other[j]

\* Lines 1355-1359: sorted_indices[0].
min_index(test_variables) ==
    CHOOSE i \in DOMAIN test_variables :
        /\ \A j \in DOMAIN test_variables :
              ~lexsort_before(test_variables[j], test_variables[i])
        /\ \A j \in 1 .. i - 1 :
              lexsort_before(test_variables[i], test_variables[j])

\* Lines 1329-1364: the variable set adopted from variables_values.
final_variables(values) ==
    IF Len(values) = 1 THEN values[1]
    ELSE values[min_index([i \in DOMAIN values |->
                               inversion_variables(values[i])])]

\* np.unique(equivalent_atoms, return_index=True), lines 1234-1237.
unique_groups(equivalent_atoms) == sorted(Range(equivalent_atoms))
unique_indices(equivalent_atoms) ==
    first_indices(equivalent_atoms, Range(equivalent_atoms))

\* group_indices that holds the first atom of the group only.
group_indices_first(equivalent_atoms, group_index) ==
    <<CHOOSE i \in DOMAIN equivalent_atoms :
         /\ equivalent_atoms[i] = group_index
         /\ \A j \in DOMAIN equivalent_atoms :
               equivalent_atoms[j] = group_index => i <= j>>

\* Lines 1249-1250.
group_indices(equivalent_atoms, group_index) ==
    SelectSeq([i \in DOMAIN equivalent_atoms |-> i],
              LAMBDA i_atom : equivalent_atoms[i_atom] = group_index)

\* A WyckoffGroup: lines 1240-1245, and the attributes of lines 1333-1334
\* and 1362-1363, None for a variable that is not set.
WyckoffGroup(wyckoff_letter, atomic_number, indices, variables) ==
    [wyckoff_letter |-> wyckoff_letter,
     atomic_number |-> atomic_number,
     indices |-> indices,
     x |-> IF "x" \in DOMAIN variables THEN Some(variables["x"]) ELSE None,
     y |-> IF "y" \in DOMAIN variables THEN Some(variables["y"]) ELSE None,
     z |-> IF "z" \in DOMAIN variables THEN Some(variables["z"]) ELSE None]

\* Lines 1253-1367 for the i_group-th group: the group with its variables,
\* or the exception.
resolved(input, i_group) ==
    LET index == unique_indices(input.equivalent_atoms)[i_group]
        indices == group_indices(input.equivalent_atoms,
                       unique_groups(input.equivalent_atoms)[i_group])
        info == input.wyckoff_infos[input.wyckoff_letters[index]]
        values == variables_values(info, indices, input.system.positions,
                                   input.precision)
    IN IF info.variables # {} /\ Len(values) = 0
       THEN [raised |-> "ValueError"]
       ELSE [raised |-> "none",
             group |-> WyckoffGroup(input.wyckoff_letters[index],
                                    input.system.numbers[index], indices,
                                    IF info.variables = {} THEN <<>>
                                    ELSE final_variables(values))]

\* sorted_groups that leaves the groups in the order of their labels.
sorted_groups_unsorted(groups) == groups

RECURSIVE sorted_groups(_)
\* sorted(list, key=attrgetter('wyckoff_letter', 'atomic_number')): the
\* first smallest group, then the others sorted.
sorted_groups(groups) ==
    IF Len(groups) = 0 THEN <<>>
    ELSE LET key(g) == <<g.wyckoff_letter, g.atomic_number>>
             first == CHOOSE i \in DOMAIN groups :
                         /\ \A j \in DOMAIN groups :
                               ~sorted_before(key(groups[j]), key(groups[i]))
                         /\ \A j \in 1 .. i - 1 :
                               sorted_before(key(groups[i]), key(groups[j]))
         IN <<groups[first]>>
               \o sorted_groups([k \in 1 .. Len(groups) - 1 |->
                                    IF k < first THEN groups[k]
                                    ELSE groups[k + 1]])

\* Lines 1173-1376: the sorted list of groups, or the exception of the first
\* group whose variables cannot be resolved.
_get_wyckoff_groups(input) ==
    LET n_groups == Len(unique_groups(input.equivalent_atoms))
    IN IF \E i_group \in 1 .. n_groups :
             resolved(input, i_group).raised # "none"
       THEN [raised |-> "ValueError", groups |-> None]
       ELSE [raised |-> "none",
             groups |-> Some(sorted_groups(
                            [i_group \in 1 .. n_groups |->
                                resolved(input, i_group).group]))]

\* ------------------------------------- _get_wyckoff_groups on its own
\* equivalent_atoms gives every atom the label of its group.
EquivalentAtoms == [SymAtoms -> SymAtoms]

\* The table of the space group: the first letter is a special position.
WyckoffTables ==
    {wyckoff_infos \in [Letters -> WyckoffInfos] :
        wyckoff_infos[1].variables = {}}

InitWyckoff ==
    /\ NoCollection
    /\ NoUtilities
    /\ analyzer = <<>>
    /\ spglib = <<>>
    /\ oracle_calls = 0
    /\ last = <<>>
    /\ PROPER_RIGID_TRANSFORMATIONS = <<>>
    /\ IMPROPER_RIGID_TRANSFORMATIONS = <<>>
    /\ ground_input = <<>>
    /\ ground_state = None
    /\ wyckoff_input \in
          [system : [numbers : [SymAtoms -> AtomicNumbers],
                     positions : [SymAtoms -> ScaledPositions]],
           wyckoff_infos : WyckoffTables,
           wyckoff_letters : [SymAtoms -> Letters],
           equivalent_atoms : EquivalentAtoms,
           precision : Accuracies]
    /\ wyckoff_groups = None

GetWyckoffGroups ==
    /\ wyckoff_groups = None
    /\ wyckoff_groups' = Some(_get_wyckoff_groups(wyckoff_input))
    /\ UNCHANGED <<collection_vars, utility_vars,
                   analyzer, spglib, oracle_calls, last,
                   PROPER_RIGID_TRANSFORMATIONS,
                   IMPROPER_RIGID_TRANSFORMATIONS,
                   ground_input, ground_state, wyckoff_input>>

NextWyckoff == GetWyckoffGroups

SpecWyckoff == InitWyckoff /\ [][NextWyckoff]_vars

\* ================================================================ claims
\* What the accessors return in a state whose caches are all filled.
basis_now == get_basis_indices(Self).ret
substitutions_now == get_substitutions(Self, {}).ret
interstitials_now == get_interstitials(Self, {}).ret
adsorbates_now == get_adsorbates(Self, {}).ret
unknowns_now == get_unknowns(Self, {}).ret

Classified == returned.get_unknowns # None

PairwiseDisjoint(c) ==
    \A i \in DOMAIN c : \A j \in DOMAIN c : i # j => c[i] \cap c[j] = {}

\* C1: once the atoms are classified, every atom index is in exactly one of
\* the categories basis, substitutions, interstitials, adsorbates and
\* unknowns: the five sets are pairwise disjoint and cover all indices.
C1_DefectPartition ==
    Classified =>
        /\ PairwiseDisjoint(<<basis_now, subst_indices(substitutions_now),
                              interstitials_now, adsorbates_now,
                              unknowns_now>>)
        /\ basis_now \cup subst_indices(substitutions_now)
              \cup interstitials_now \cup adsorbates_now \cup unknowns_now
           = get_all_indices

\* C2: an assignment to a key that is present (compared as a tuple) raises
\* and changes nothing; no assignment removes a key or replaces a unit.
C2_NoOverwrite ==
    [][/\ \A k \in DOMAIN units : k \in DOMAIN units' /\ units'[k] = units[k]
       /\ \A key \in KeyInputs : \A value \in UnitSamples :
            (/\ setitem(key, value)
             /\ CanTuple(key)
             /\ tuple(key) \in DOMAIN units)
            => raised' # "none" /\ units' = units]_vars

\* An assignment to a present key was rejected, under the other spelling of
\* the key too, and the stored units differ from the offered ones.
C2_Witness ==
    /\ raised = "ValueError: overriding"
    /\ Cardinality(DOMAIN units) >= 2
    /\ \E k1 \in DOMAIN units : \E k2 \in DOMAIN units : units[k1] # units[k2]

IntTriple(k) ==
    /\ Len(k) = 3
    /\ \A i \in 1 .. 3 : k[i].type = "int"

\* C3: after any sequence of assignments every stored key is a tuple of
\* exactly three integers (an assignment with any other key is rejected).
C3_IntegerTripleKeys == \A k \in DOMAIN units : IntTriple(k)

\* The slot atom passes the filter of slot i_index: the chemical distance of
\* its environment to the ideal one is at least 0.4.
Passes(i_index, index) ==
    AtLeastThreshold(get_chemical_distance(neighbour_map[i_index],
                                           real_environment[index]))

Occupies(index, k, i_index) == units[k].basis_indices[i_index] = index

FilteredSlotAtoms ==
    {index \in Atoms :
        \E k \in DOMAIN units : \E i_index \in Slots :
            Occupies(index, k, i_index) /\ Passes(i_index, index)}

\* C4: when the basis indices are computed they are exactly the atoms that
\* occupy some slot of some unit and whose chemical distance to the ideal
\* environment of such a slot is at least 0.4.
C4_BasisFilter ==
    [][(_basis_indices = None /\ _basis_indices' # None)
       => _basis_indices'[1] = FilteredSlotAtoms]_vars

\* The basis was computed on the present tiling and holds an atom that
\* occupies two slots, passing the filter of one and failing the other's.
C4_Witness ==
    /\ _basis_indices = Some(FilteredSlotAtoms)
    /\ \E index \in _basis_indices[1] : \E k \in DOMAIN units :
         \E i \in Slots : \E j \in Slots :
            /\ Occupies(index, k, i) /\ Passes(i, index)
            /\ Occupies(index, k, j) /\ ~Passes(j, index)

RealCount(s) == IF s \in DOMAIN real_env THEN real_env[s] ELSE 0
IdealTotal == SumOver(ideal_env, DOMAIN ideal_env)
Overlap ==
    SumOver([s \in DOMAIN ideal_env |-> Min(ideal_env[s], RealCount(s))],
            DOMAIN ideal_env)

\* C5: the chemical distance is the number Overlap/IdealTotal, it lies in
\* [0,1], it is 1 exactly when the real count reaches the ideal count for
\* every ideal species and 0 exactly when no species of the ideal
\* neighbourhood has a real neighbour.
C5_ChemicalDistance ==
    chem_dist # None =>
        LET d == chem_dist[1]
        IN /\ d[2] > 0
           /\ d[1] * IdealTotal = Overlap * d[2]
           /\ 0 <= d[1] /\ d[1] <= d[2]
           /\ d[1] = d[2] <=>
                 \A s \in DOMAIN ideal_env : RealCount(s) >= ideal_env[s]
           /\ d[1] = 0 <=>
                 \A s \in DOMAIN ideal_env :
                    ideal_env[s] > 0 => RealCount(s) = 0

\* The tessellation in use: no simplex before one is built.
Tesselation == IF _decomposition = None THEN {} ELSE _decomposition[1]

\* The atoms that test inside and outside the tessellation: the atoms
\* outside the basis that find_simplex does or does not locate.
TestedInside ==
    {i \in Atoms \ _basis_indices[1] : find_simplex(Tesselation, i) # absent}
TestedOutside ==
    {i \in Atoms \ _basis_indices[1] : find_simplex(Tesselation, i) = absent}

\* C6: when the substitutions are computed, a 2D collection takes every
\* recorded substitution and any other collection exactly those whose atom
\* tests inside the tessellation; there a recorded substitution of an atom
\* that tests outside is no substitution and is an adsorbate.
C6_SubstitutionRule ==
    [][/\ (_substitutions = None /\ _substitutions' # None)
          => _substitutions'[1] =
                IF is_2d THEN all_substitutions
                ELSE {subst \in all_substitutions :
                         subst.index \in TestedInside'}
       /\ (~is_2d /\ _substitutions' # None /\ _adsorbates' # None)
          => \A subst \in all_substitutions :
                subst.index \in TestedOutside'
                => /\ subst \notin _substitutions'[1]
                   /\ subst.index \in _adsorbates'[1]]_vars

\* A surface with accepted basis atoms and a recorded substitution of an
\* atom outside the tessellation: not a substitution, an adsorbate.
C6_Witness ==
    /\ ~is_2d
    /\ _basis_indices # None /\ _substitutions # None /\ _adsorbates # None
    /\ _basis_indices[1] # {}
    /\ \E subst \in all_substitutions :
         /\ subst.index \in TestedOutside
         /\ subst \notin _substitutions[1]
         /\ subst.index \in _adsorbates[1]

C8_VacancyRule ==
    [][/\ (_vacancies = None /\ _vacancies' # None)
          => /\ _vacancies'[1] =
                   IF is_2d THEN all_vacancies
                   ELSE {vacancy \in all_vacancies :
                            find_simplex(Tesselation', vacancy.position)
                               # absent}
             /\ ~is_2d => _decomposition' # None
       /\ _decomposition' # None
          => /\ _basis_indices' # None
             /\ _basis_indices'[1] = {} => _decomposition'[1] = {}]_vars

\* A surface whose recorded vacancy lies in the tessellation of its basis.
C8_Witness ==
    /\ ~is_2d
    /\ _vacancies # None /\ _basis_indices # None
    /\ _basis_indices[1] # {}
    /\ _vacancies[1] # {}
    /\ _vacancies[1] = all_vacancies

Caches ==
    <<_basis_indices, _vacancies, _substitutions, _adsorbates,
      _inside_indices, _outside_indices,
      returned.get_interstitials, returned.get_unknowns>>

\* C9: once an accessor has returned a result, every later call returns the
\* same one: a filled cache and the last result of get_interstitials and of
\* get_unknowns never change, whatever is called or inserted.
C9_Memoization ==
    [][\A i \in DOMAIN Caches : Caches[i] # None => Caches'[i] = Caches[i]]_vars

\* Every accessor has returned, and a unit inserted afterwards would change
\* the basis and the substitutions if they were computed again.
C9_Witness ==
    /\ \A i \in DOMAIN Caches : Caches[i] # None
    /\ is_2d
    /\ _substitutions[1] # all_substitutions
    /\ _basis_indices[1] # FilteredSlotAtoms

\* C10: the recreated structure holds validated basis atoms only: each of
\* its atoms is among the basis indices.
C10_ValidatedReconstruction ==
    _basis_indices = None => recreate_valid \subseteq basis_now

\* Some unit holds an atom in a prototype slot without ideal neighbours.
ZeroIdealSlotOccupied ==
    \E k \in DOMAIN units : \E i_index \in Slots :
        /\ units[k].basis_indices[i_index] # absent
        /\ SumOver(neighbour_map[i_index], DOMAIN neighbour_map[i_index]) = 0

Supported(system) == system.n_pbc \in {2, 3}

Assignments == {"__init__", "set_system"}
Getters ==
    {"get_symmetry_dataset", "get_space_group_number",
     "get_conventional_system", "get_wyckoff_letters_conventional",
     "get_equivalent_atoms_conventional", "get_primitive_system",
     "get_conventional_lattice_fit", "get_wyckoff_letters_original"}

\* The fields that hold the conventional and the primitive system.
CellFields ==
    {"_conventional_system", "_conventional_wyckoff_letters",
     "_conventional_equivalent_atoms", "_conventional_lattice_fit",
     "_primitive_system", "_primitive_wyckoff_letters",
     "_primitive_equivalent_atoms", "_best_transform"}

OracleFails ==
    /\ Constructed
    /\ spglib[analyzer["_analyzed_system"][1].id] # "dataset"

\* C13: if the oracle crashes or returns None for the analyzed structure,
\* get_symmetry_dataset raises CellNormalizationError, every getter that
\* reads the dataset raises and returns nothing, and no dataset and no
\* field derived from one is stored.
C13_OracleFaultBoundary ==
    OracleFails =>
        /\ \A field \in CachedFields : analyzer[field] = None
        /\ last.op \in Getters => last.raised # "none" /\ last.ret = None
        /\ last.op \in {"get_symmetry_dataset", "get_space_group_number",
                        "get_wyckoff_letters_original"}
              => last.raised = "CellNormalizationError"

\* The oracle has crashed in get_symmetry_dataset, called a second time.
C13_Witness ==
    /\ OracleFails
    /\ spglib[analyzer["_analyzed_system"][1].id] = "RuntimeError"
    /\ last.op = "get_symmetry_dataset"
    /\ last.raised = "CellNormalizationError"
    /\ oracle_calls = 2

\* What a field holds after the getter that assigns it has run on an
\* analyzer with the same two systems and nothing cached.
Fresh == Call(reset(analyzer), 0)
fresh(field) ==
    CASE field = "_symmetry_dataset" -> get_symmetry_dataset(Fresh)
      [] field = "_spglib_conventional_system"
            -> _get_spglib_conventional_system(Fresh)
      [] field = "_spglib_primitive_to_original_mapping"
            -> _get_spglib_primitive_to_original_mapping(Fresh)
      [] field \in {"_spglib_wyckoff_letters_primitive"}
            -> _get_spglib_wyckoff_letters_primitive(Fresh)
      [] field = "_spglib_equivalent_atoms_primitive"
            -> _get_spglib_equivalent_atoms_primitive(Fresh)
      [] field = "_spglib_wyckoff_letters_conventional"
            -> _get_spglib_wyckoff_letters_conventional(Fresh)
      [] field = "_spglib_equivalent_atoms_conventional"
            -> _get_spglib_equivalent_atoms_conventional(Fresh)
      [] field \in {"_conventional_system", "_conventional_wyckoff_letters",
                    "_conventional_equivalent_atoms", "_best_transform"}
            -> get_conventional_system(Fresh)
      [] field = "_conventional_lattice_fit"
            -> get_conventional_lattice_fit(Fresh)
      [] OTHER -> get_primitive_system(Fresh)

\* The last call was a set_system that succeeded.
Rebound ==
    /\ last.op = "set_system"
    /\ last.raised = "none"

\* C14: a set_system that succeeds leaves every cached derived field
\* cleared and the new structure bound; and whatever a cached field holds at
\* any time is what a computation from the structures bound now gives, never
\* a value computed for a structure bound before.
C14_ResetOnRebind ==
    /\ Rebound =>
          /\ \A field \in CachedFields : analyzer[field] = None
          /\ analyzer["_original_system"] = last.system
    /\ \A field \in CachedFields :
          analyzer[field] # None
             => analyzer[field] = fresh(field).self.obj[field]

\* set_system has succeeded with a structure other than the one bound
\* before, for which the dataset, both cells, the fit and the best transform
\* were cached.
C14_Witness ==
    /\ last.op = "set_system"
    /\ last.raised = "none"
    /\ last.previous # None
    /\ last.previous[1].id # last.system[1].id
    /\ {"_symmetry_dataset", "_spglib_conventional_system",
        "_conventional_system", "_conventional_wyckoff_letters",
        "_primitive_system", "_conventional_lattice_fit",
        "_best_transform"} \subseteq last.cleared
    /\ \A field \in CachedFields : analyzer[field] = None

\* C15: since the last set_system the oracle has been invoked at most once,
\* and a dataset that is stored is the one the oracle gave for the analyzed
\* structure.
C15_DatasetOnce ==
    /\ oracle_calls <= 1
    /\ (Constructed /\ analyzer["_symmetry_dataset"] # None)
          => analyzer["_symmetry_dataset"]
                = Some(symmetry_dataset(analyzer["_analyzed_system"][1]))

\* ------------------------------------------------ the ground state search
\* The search has been run on more than one candidate and has returned.
Searched ==
    /\ ground_state # None
    /\ ground_state[1].raised = "none"
    /\ Len(ground_state[1].transform_list) > 1

Candidates ==
    [i \in DOMAIN ground_state[1].transform_list |->
        representation(ground_state[1].transform_list[i],
                       ground_input.old_wyckoff_letters,
                       ground_input.system.numbers)]

Chosen == ground_state[1]._best_transform[1]

\* The keys in the order of the narrowing: by letter, then by species.
KeyOrder ==
    LET letters == gathered_letters(ground_state[1].transform_list)
        numbers == sorted(Range(ground_input.system.numbers))
    IN [k \in 1 .. Len(letters) * Len(numbers) |->
           <<letters[((k - 1) \div Len(numbers)) + 1],
             numbers[((k - 1) % Len(numbers)) + 1]>>]

\* The number of atoms of a candidate at a key, 0 for an absent key.
CountAt(r, key) ==
    IF key \in DOMAIN r.wyckoff_positions THEN r.wyckoff_positions[key]
    ELSE 0

\* The count vector of r is lexicographically at least that of q.
LexAtLeast(r, q) ==
    \/ \A k \in DOMAIN KeyOrder :
          CountAt(r, KeyOrder[k]) = CountAt(q, KeyOrder[k])
    \/ \E k \in DOMAIN KeyOrder :
          /\ CountAt(r, KeyOrder[k]) > CountAt(q, KeyOrder[k])
          /\ \A j \in 1 .. k - 1 :
                CountAt(r, KeyOrder[j]) = CountAt(q, KeyOrder[j])

\* C16: the candidate chosen by _find_wyckoff_ground_state is one of the
\* candidates left by the narrowing, every key of a candidate is visited,
\* and the count vector of the chosen candidate over the keys in narrowing
\* order, absent keys counted as 0, is lexicographically maximal among all
\* candidates.
C16_LexicographicMaximum ==
    Searched =>
        /\ \E i \in DOMAIN ground_state[1].representations :
              /\ ground_state[1].representations[i] = Chosen
              /\ \E j \in DOMAIN Candidates : Candidates[j] = Chosen
        /\ \A i \in DOMAIN Candidates :
              DOMAIN Candidates[i].wyckoff_positions \subseteq Range(KeyOrder)
        /\ \A i \in DOMAIN Candidates : LexAtLeast(Chosen, Candidates[i])

\* A tabulated transformation has been chosen over the identity and another
\* one, and two of the three candidates agree at the first key and differ at
\* a later one.
C16_Witness ==
    /\ Searched
    /\ Len(Candidates) = 3
    /\ Len(ground_state[1].representations) = 1
    /\ Chosen # Candidates[1]
    /\ ~LexAtLeast(Candidates[1], Chosen)
    /\ \E i, j \in DOMAIN Candidates :
          /\ CountAt(Candidates[i], KeyOrder[1])
                = CountAt(Candidates[j], KeyOrder[1])
          /\ CountAt(Candidates[i], KeyOrder[1]) > 0
          /\ ~LexAtLeast(Candidates[i], Candidates[j])

\* The candidates left by the narrowing are candidates in candidate order.
InCandidateOrder(remaining) ==
    \E pick \in [DOMAIN remaining -> DOMAIN Candidates] :
        /\ \A i \in DOMAIN remaining : Candidates[pick[i]] = remaining[i]
        /\ \A i, j \in DOMAIN remaining : i < j => pick[i] < pick[j]

IdentityRemains ==
    \E i \in DOMAIN ground_state[1].representations :
        ground_state[1].representations[i] = Candidates[1]

\* C17: when more than one candidate is left the search raises exactly if
\* their count maps differ; otherwise it returns the first candidate left, in
\* candidate order; and when the identity is among the candidates left, the
\* returned positions and letters are those passed in.
C17_TieHandling ==
    (ground_state # None /\ Len(ground_state[1].transform_list) > 1) =>
        /\ ground_state[1].raised # "none"
              <=> \E i, j \in DOMAIN ground_state[1].representations :
                     ground_state[1].representations[i].wyckoff_positions
                        # ground_state[1].representations[j].wyckoff_positions
        /\ ground_state[1].raised = "none" =>
              /\ InCandidateOrder(ground_state[1].representations)
              /\ Chosen = ground_state[1].representations[1]
              /\ IdentityRemains =>
                    /\ ground_state[1].system = Some(ground_input.system)
                    /\ ground_state[1].wyckoff_letters
                          = Some(ground_input.old_wyckoff_letters)

\* The part of C17 that the search satisfies: everything but the positions.
TieHandlingButPositions ==
    (ground_state # None /\ Len(ground_state[1].transform_list) > 1) =>
        /\ ground_state[1].raised # "none"
              <=> \E i, j \in DOMAIN ground_state[1].representations :
                     ground_state[1].representations[i].wyckoff_positions
                        # ground_state[1].representations[j].wyckoff_positions
        /\ ground_state[1].raised = "none" =>
              /\ InCandidateOrder(ground_state[1].representations)
              /\ Chosen = ground_state[1].representations[1]
              /\ IdentityRemains =>
                    /\ ground_state[1].system[1].numbers
                          = ground_input.system.numbers
                    /\ ground_state[1].wyckoff_letters
                          = Some(ground_input.old_wyckoff_letters)

\* ------------------------------------- the candidates of the ground state
\* The last call went through the ground state search for the structure
\* that is bound.
GroundSearched == Constructed /\ last.ground # None

SearchedSpaceGroup == analyzer["_symmetry_dataset"][1].number
SearchedLetters == analyzer["_spglib_wyckoff_letters_conventional"][1]
SearchedCandidates == last.ground[1].transform_list

\* The structure has exactly two periodic axes and is planar along the
\* third.
Planar(system) == system.n_pbc = 2 /\ system.flat

\* C18: the candidates of the ground state search are the identity, then
\* the proper transformations tabulated for the space group, then the
\* improper ones tabulated for it if and only if the structure has exactly
\* two periodic axes and is planar, and nothing else; with the identity as
\* the only candidate the structure and its letters are returned as they
\* were passed.
C18_CandidateSet ==
    GroundSearched =>
        LET proper ==
                tabulated(PROPER_RIGID_TRANSFORMATIONS, SearchedSpaceGroup)
            improper ==
                tabulated(IMPROPER_RIGID_TRANSFORMATIONS, SearchedSpaceGroup)
        IN /\ SearchedCandidates
                 = <<identity(SearchedLetters)>> \o proper
                      \o (IF Planar(analyzer["_original_system"][1])
                          THEN improper ELSE <<>>)
           /\ analyzer["_original_system"][1].n_pbc = 3
                 => \A i \in DOMAIN SearchedCandidates :
                       \A j \in DOMAIN improper :
                          SearchedCandidates[i] # improper[j]
           /\ Len(proper) + Len(improper) = 0
                 => /\ last.ground[1].system
                          = analyzer["_spglib_conventional_system"]
                    /\ last.ground[1].wyckoff_letters = Some(SearchedLetters)

\* The search has been run for a planar structure with two periodic axes
\* with the improper transformation among its candidates.
C18_Witness ==
    /\ GroundSearched
    /\ Planar(analyzer["_original_system"][1])
    /\ Len(SearchedCandidates) = 3
    /\ SearchedCandidates[3]
          = IMPROPER_RIGID_TRANSFORMATIONS[SearchedSpaceGroup][1]

\* ------------------------------------------- the free Wyckoff parameters
GroupNumbers == DOMAIN unique_groups(wyckoff_input.equivalent_atoms)

MemberIndices(i_group) ==
    group_indices(wyckoff_input.equivalent_atoms,
                  unique_groups(wyckoff_input.equivalent_atoms)[i_group])

GroupInfo(i_group) ==
    wyckoff_input.wyckoff_infos[
        wyckoff_input.wyckoff_letters[
            unique_indices(wyckoff_input.equivalent_atoms)[i_group]]]

HasVariables(i_group) == GroupInfo(i_group).variables # {}

\* The trial-value sets collected for the group.
CollectedSets(i_group) ==
    variables_values(GroupInfo(i_group), MemberIndices(i_group),
                     wyckoff_input.system.positions, wyckoff_input.precision)

Resolved == wyckoff_groups # None /\ wyckoff_groups[1].raised = "none"

\* The group returned for the i_group-th group of equivalent atoms and the
\* values of the variables set on it.
ReturnedGroup(i_group) ==
    CHOOSE group \in Range(wyckoff_groups[1].groups[1]) :
        group.indices = MemberIndices(i_group)

AdoptedValues(i_group) ==
    [variable \in {v \in {"x", "y", "z"} : ReturnedGroup(i_group)[v] # None}
        |-> ReturnedGroup(i_group)[variable][1]]

\* C19: a group with free variables for which no trial-value set is
\* collected makes _get_wyckoff_groups raise; a single collected set is
\* adopted; of several, the one adopted is the smallest when compared by x
\* first, then y, then z.
C19_FreeParameterChoice ==
    wyckoff_groups # None =>
        /\ wyckoff_groups[1].raised # "none"
              <=> \E i_group \in GroupNumbers :
                     /\ HasVariables(i_group)
                     /\ Len(CollectedSets(i_group)) = 0
        /\ Resolved =>
              \A i_group \in GroupNumbers :
                 HasVariables(i_group) =>
                    /\ \E k \in DOMAIN CollectedSets(i_group) :
                          AdoptedValues(i_group) = CollectedSets(i_group)[k]
                    /\ \A k \in DOMAIN CollectedSets(i_group) :
                          ~sorted_before(
                              inversion_variables(CollectedSets(i_group)[k]),
                              inversion_variables(AdoptedValues(i_group)))

\* What the choice satisfies instead: the set adopted is the smallest when
\* compared by the last variable first.
ChoiceByLastVariable ==
    wyckoff_groups # None =>
        /\ wyckoff_groups[1].raised # "none"
              <=> \E i_group \in GroupNumbers :
                     /\ HasVariables(i_group)
                     /\ Len(CollectedSets(i_group)) = 0
        /\ Resolved =>
              \A i_group \in GroupNumbers :
                 HasVariables(i_group) =>
                    /\ \E k \in DOMAIN CollectedSets(i_group) :
                          AdoptedValues(i_group) = CollectedSets(i_group)[k]
                    /\ \A k \in DOMAIN CollectedSets(i_group) :
                          ~lexsort_before(
                              inversion_variables(CollectedSets(i_group)[k]),
                              inversion_variables(AdoptedValues(i_group)))

\* The values reproduce a member position for every expression of the
\* letter.
Consistent(values, i_group) ==
    \A e \in DOMAIN GroupInfo(i_group).expressions :
        \E k \in DOMAIN MemberIndices(i_group) :
            _search_periodic_positions(
                evaluated(GroupInfo(i_group).expressions[e], values),
                wyckoff_input.system.positions[MemberIndices(i_group)[k]],
                wyckoff_input.precision) # absent

\* C20: every trial-value set collected for a group, and so the set adopted
\* for it, reproduces the position of a member of the group for every
\* expression tabulated for the group's letter, within the search accuracy.
C20_FreeParameterConsistency ==
    wyckoff_groups # None =>
        \A i_group \in GroupNumbers :
           HasVariables(i_group) =>
              /\ \A k \in DOMAIN CollectedSets(i_group) :
                    Consistent(CollectedSets(i_group)[k], i_group)
              /\ Resolved => Consistent(AdoptedValues(i_group), i_group)

\* ------------------------------------------------- the groups returned
ReturnedGroups == wyckoff_groups[1].groups[1]

\* The places, group and position in its index list, at which the atom is a
\* member.
Memberships(i_atom) ==
    {place \in (DOMAIN ReturnedGroups) \X SymAtoms :
        /\ place[2] \in DOMAIN ReturnedGroups[place[1]].indices
        /\ ReturnedGroups[place[1]].indices[place[2]] = i_atom}

\* C21: the index lists of the returned groups hold atoms of the system
\* only, and every atom of the system is a member of exactly one group,
\* once: the lists are pairwise disjoint and their sizes sum to the number
\* of atoms.
C21_GroupCompleteness ==
    Resolved =>
        /\ \A g \in DOMAIN ReturnedGroups :
              /\ Len(ReturnedGroups[g].indices) >= 1
              /\ Range(ReturnedGroups[g].indices) \subseteq SymAtoms
        /\ \A i_atom \in SymAtoms : Cardinality(Memberships(i_atom)) = 1

\* Groups have been returned of which one has more than one member and
\* free variables.
C21_Witness ==
    /\ Resolved
    /\ \E g \in DOMAIN ReturnedGroups :
          /\ Len(ReturnedGroups[g].indices) > 1
          /\ ReturnedGroups[g].x # None

\* The label of a returned group in equivalent_atoms.
GroupLabel(group) == wyckoff_input.equivalent_atoms[group.indices[1]]

Assigned ==
    /\ last.op \in Assignments
    /\ last.raised = "none"

\* C24: when a structure with two periodic axes is assigned, the analyzed
\* structure has the basis vector of the non-periodic axis rescaled to the
\* length max(5, 3 * thickness) with its direction kept, the other two basis
\* vectors and everything else as in the input, and the structure the caller
\* passed is held unmodified; with three periodic axes the analyzed
\* structure is the input.
C24_VacuumPadding ==
    Assigned =>
        /\ analyzer["_original_system"] = last.system
        /\ last.system[1].cell = CellSample
        /\ last.system[1].n_pbc = 3
              => analyzer["_analyzed_system"] = last.system
        /\ last.system[1].n_pbc = 2
              => /\ \A axis \in Axes :
                       IF last.system[1].pbc[axis]
                       THEN analyzer["_analyzed_system"][1].cell[axis]
                                = last.system[1].cell[axis]
                       ELSE /\ analyzer["_analyzed_system"][1].cell[axis]
                                   .direction
                                   = last.system[1].cell[axis].direction
                            /\ analyzer["_analyzed_system"][1].cell[axis]
                                   .length
                                   \in {5, 3 * last.system[1].thickness}
                            /\ analyzer["_analyzed_system"][1].cell[axis]
                                   .length >= 5
                            /\ analyzer["_analyzed_system"][1].cell[axis]
                                   .length >= 3 * last.system[1].thickness
                 /\ [analyzer["_analyzed_system"][1] EXCEPT
                        !.cell = CellSample, !.padded = FALSE]
                        = last.system[1]

\* set_system has padded a thin slab whose first axis is the non-periodic
\* one: the vector of length 4 is now 5 long.
C24_Witness ==
    /\ Assigned
    /\ last.op = "set_system"
    /\ last.system[1].pbc = <<FALSE, TRUE, TRUE>>
    /\ last.system[1].thickness = 1
    /\ analyzer["_analyzed_system"][1].cell[1].length = 5

\* The analyzed structure is the original itself or its padded copy.
StemsFrom(analyzed, original) ==
    \/ original.n_pbc = 3 /\ analyzed = original
    \/ original.n_pbc = 2 /\ analyzed = symmetry_broken_system(original)

\* C27: the analyzed structure an analyzer holds is the original structure
\* it holds or the vacuum-padded copy of it, also after set_system has
\* rejected a structure, and a dataset a getter returns is the one of the
\* structure assigned last.
C27_EngineBinding ==
    Constructed =>
        /\ analyzer["_analyzed_system"] # None
              => StemsFrom(analyzer["_analyzed_system"][1],
                           analyzer["_original_system"][1])
        /\ (last.op = "get_symmetry_dataset" /\ last.ret # None)
              => last.ret[1].system.id = analyzer["_original_system"][1].id

\* The getter of the given name, called on the analyzer.
GetterCall(op, self) ==
    CASE op = "get_symmetry_dataset" -> get_symmetry_dataset(self)
      [] op = "get_space_group_number" -> get_space_group_number(self)
      [] op = "get_conventional_system" -> get_conventional_system(self)
      [] op = "get_wyckoff_letters_conventional"
            -> get_wyckoff_letters_conventional(self)
      [] op = "get_equivalent_atoms_conventional"
            -> get_equivalent_atoms_conventional(self)
      [] op = "get_primitive_system" -> get_primitive_system(self)
      [] op = "get_conventional_lattice_fit"
            -> get_conventional_lattice_fit(self)
      [] op = "get_wyckoff_letters_original"
            -> get_wyckoff_letters_original(self)

\* The same getter as the first call after set_system of the structure the
\* analyzer is bound to.
FirstCall(op) == GetterCall(op, Call(reset(analyzer), 0))

\* The analyzer is bound to a structure on which the oracle succeeds.
Bound ==
    /\ Constructed
    /\ StemsFrom(analyzer["_analyzed_system"][1],
                 analyzer["_original_system"][1])
    /\ spglib[analyzer["_analyzed_system"][1].id] = "dataset"

\* C28: on a bound structure on which the oracle succeeds every getter
\* succeeds, whichever getters were called before it and also as the first
\* call after set_system, and returns what it returns as the first call.
C28_GetterOrderIndependence ==
    (Bound /\ last.op \in Getters) =>
        /\ last.raised = "none"
        /\ ~failed(FirstCall(last.op))
        /\ last.ret = Some(FirstCall(last.op).ret)

\* The search has been run on more than one candidate and has ended.
Narrowed ==
    /\ ground_state # None
    /\ Len(ground_state[1].transform_list) > 1

\* C29: when _find_wyckoff_ground_state has narrowed more than one
\* candidate, at least one candidate is left, the candidates left have the
\* same count map (same keys, same counts), and the call has not raised.
C29_AmbiguityUnreachable ==
    Narrowed =>
        /\ ground_state[1].representations # <<>>
        /\ \A i, j \in DOMAIN ground_state[1].representations :
              /\ DOMAIN ground_state[1].representations[i].wyckoff_positions
                    = DOMAIN ground_state[1].representations[j]
                                 .wyckoff_positions
              /\ \A key \in
                    DOMAIN ground_state[1].representations[i]
                               .wyckoff_positions :
                    ground_state[1].representations[i].wyckoff_positions[key]
                       = ground_state[1].representations[j]
                             .wyckoff_positions[key]
        /\ ground_state[1].raised = "none"

\* All keys were visited and two candidates with different permutations are
\* left, their count maps holding atoms at two keys.
C29_Witness ==
    /\ Narrowed
    /\ Len(ground_state[1].representations) = 2
    /\ ground_state[1].representations[1].permutations
          # ground_state[1].representations[2].permutations
    /\ Cardinality(DOMAIN ground_state[1].representations[1]
                              .wyckoff_positions) = 2

\* ------------------------------------------------------- the unknown atoms
\* C30: whenever get_unknowns returns, in a 2D collection or not, it returns
\* no atom, and the inside and the outside indices held by then are
\* disjoint and together are the atoms outside the basis held.
C30_UnknownsEmpty ==
    returned["get_unknowns"] # None =>
        /\ returned["get_unknowns"][1] = {}
        /\ _inside_indices # None /\ _outside_indices # None
        /\ _inside_indices[1] \cap _outside_indices[1] = {}
        /\ _inside_indices[1] \cup _outside_indices[1]
              = get_all_indices \ _basis_indices[1]

\* get_unknowns has returned for a 2D collection in which an atom outside
\* the tessellation is a substitution.
C30_Witness ==
    /\ returned["get_unknowns"] # None
    /\ is_2d
    /\ _outside_indices # None /\ _substitutions # None
    /\ _outside_indices[1] \cap subst_indices(_substitutions[1]) # {}

\* ------------------------------------------------------- merged intervals
\* The points of the line covered by a list of intervals, in half units, so
\* that the gap between two neighbouring numbers is a point as well.
Covered(list) ==
    UNION {2 * list[k][1] .. 2 * list[k][2] : k \in DOMAIN list}

\* C26: what get_merged_intervals returns is sorted by start, its intervals
\* do not overlap or touch, and it covers exactly what the intervals held
\* cover: it is the empty list when none is held, and never a merge of
\* intervals held before.
C26_MergedIntervalsCurrent ==
    (intervals_last # <<>> /\ intervals_last.op = "get_merged_intervals") =>
        /\ \A k \in 1 .. Len(intervals_last.ret[1]) - 1 :
              /\ intervals_last.ret[1][k][1] <= intervals_last.ret[1][k + 1][1]
              /\ intervals_last.ret[1][k][2] < intervals_last.ret[1][k + 1][1]
        /\ Covered(intervals_last.ret[1]) = Covered(_intervals)
        /\ _intervals = <<>> => intervals_last.ret[1] = <<>>

\* ------------------------------------------------------ the lattice fit
\* C23: the determinant of the matrix returned by
\* get_conventional_lattice_fit divided by the number of atoms of the
\* conventional cell is the volume of the original cell divided by the
\* number of its atoms, also when the rescale factor is not 1.
C23_VolumeConservation ==
    lattice_fit # None =>
        over(det(lattice_fit[1]), Fraction(fit_input.n_atoms_conv, 1))
           = over(det([i \in 1 .. 3 |-> Fraction(fit_input.orig_cell[i], 1)]),
                  Fraction(fit_input.n_atoms_original, 1))

\* ------------------------------------------ the search on its own result
\* The search has been run on its own result with more than one candidate.
SearchedAgain ==
    /\ ground_again # None
    /\ Len(ground_again[1].transform_list) > 1

\* The count map of the letters handed to the second search.
InputCounts ==
    wyckoff_positions(identity(ground_state[1].wyckoff_letters[1]).permutations,
                      ground_state[1].wyckoff_letters[1],
                      ground_state[1].system[1].numbers)

\* The second search returns a candidate with the count map of its input
\* and leaves every atom its letter.
NoFurtherRelabelling ==
    /\ ground_again[1].raised = "none"
    /\ ground_again[1]._best_transform[1].wyckoff_positions = InputCounts
    /\ ground_again[1].wyckoff_letters = ground_state[1].wyckoff_letters

ClosedUnderComposition ==
    \A i, j \in 2 .. Len(ground_state[1].transform_list) :
        \E k \in DOMAIN ground_state[1].transform_list :
            \A letter \in Range(ground_input.old_wyckoff_letters) :
                ground_state[1].transform_list[k].permutations[letter]
                   = ground_state[1].transform_list[j].permutations[
                         ground_state[1].transform_list[i]
                             .permutations[letter]]

====
